---------------------------- MODULE Spec2Model ----------------------------
(***************************************************************************)
(* A model of the Texecom Connect protocol engine (src/texecomConnect.py). *)
(*                                                                         *)
(* The Python program is single threaded around a blocking socket.  The    *)
(* model keeps the object's fields as variables, the Python call stack as  *)
(* the sequence stk, and lets one action run the program from one blocking *)
(* point (socket connect, socket recv) to the next.  The panel and the     *)
(* network are the environment: at every blocking recv they deliver a      *)
(* chunk of bytes, a socket timeout, or an error.  The consumer thread     *)
(* (the MQTT callback of src/alarm-monitor.py) enqueues requests at any    *)
(* time.  Time is counted in whole seconds and passes only while the       *)
(* program blocks (recv, sleep).                                           *)
(***************************************************************************)
EXTENDS Integers, Sequences, FiniteSets, TLC

(***************************************************************************)
(* Bounds of the model                                                     *)
(***************************************************************************)
\* seconds of model time a run lasts
MaxClock == 36
\* depth of the Python call stack the model follows
MaxStack == 9
\* length of arm_disarm_reset_queue the consumer thread fills
MaxQueue == 2
\* zones 1..MaxCfgZone may be configured on the panel, the others are unused
MaxCfgZone == 2
\* command frames issued in a run: enough for the sequence byte to wrap
\* under SpecSeq, and a few sessions' worth under the other specifications
MaxCmdsSeq == 260
MaxCmds == 40
\* commands issued in a run that loads the topology twice
MaxCmdsReload == 62
\* commands issued in a run that ends once the panel shape is derived
MaxCmdsShape == 20
\* commands issued in a run that loads a 640-zone panel and polls it
MaxCmdsLarge == 1760
\* seconds and commands of a run long enough for several idle probes
MaxClockIdle == 330
MaxCmdsIdle == 200
\* seconds of a run in which messages keep arriving
MaxClockBusy == 100
\* seconds and commands of a run with outages of more than a minute
MaxClockOutage == 130
MaxCmdsOutage == 62
\* seconds and commands of a run of attempts to establish a session
MaxClockSession == 20
MaxCmdsSession == 8
\* the longest command body handed to sendcommandbody
MaxBodyLen == 3
\* the longest byte string handed to bcdDecodeBytes
MaxBcdLen == 3
\* seconds and commands of a run over a wire that fails
MaxClockFaults == 36
MaxCmdsFaults == 50
\* seconds and commands of a run of sessions that are set up and dropped
MaxClockOrder == 12
MaxCmdsOrder == 62
\* seconds and commands of a run in which messages arrive while commands wait
MaxClockStream == 12
MaxCmdsStream == 6
\* seconds and command frames of a run in which a dropped session is
\* followed by a second one
MaxClockLive == 20
\* command frames from login to the end of the topology load of a panel with
\* one configured zone, and one for the request
SessionCmds == 31
\* the longest step of the main thread: a receive timeout of 2 s and the
\* 5 s sleep before a reconnection
MaxStepSecs == 7
MaxCmdsLive == 62
\* a configured zone of the 640-zone panel whose number takes two bytes
HighZone == 300
\* seconds of a run of calls on one zone
MaxClockZone == 64
\* the highest configured zone of the 640-zone panel
LastUsedZone == 200

(***************************************************************************)
(* Protocol constants (src/texecomDefines.py)                              *)
(***************************************************************************)
LENGTH_HEADER == 4
HEADER_START == 116
HEADER_TYPE_COMMAND == 67
HEADER_TYPE_RESPONSE == 82
HEADER_TYPE_MESSAGE == 77

CMD_LOGIN == 1
CMD_GETZONESTATE == 2
CMD_GETZONEDETAILS == 3
CMD_ARMAREAS == 6
CMD_DISARMAREAS == 8
CMD_RESETAREAS == 9
CMD_GETAREAFLAGS == 11
CMD_GETLOGPOINTER == 15
CMD_GETPANELIDENTIFICATION == 22
CMD_GETDATETIME == 23
CMD_GETSYSTEMPOWER == 25
CMD_GETUSER == 27
CMD_GETAREADETAILS == 35
CMD_GETZONECHANGES == 36
CMD_SETEVENTMESSAGES == 37

CMD_TIMEOUT == 2
CMD_RETRIES == 3

CMD_RESPONSE_ACK == 6
CMD_RESPONSE_NAK == 21

MSG_DEBUG == 0
MSG_ZONEEVENT == 1
MSG_AREAEVENT == 2
MSG_OUTPUTEVENT == 3
MSG_USEREVENT == 4
MSG_LOGEVENT == 5

ARMING_TYPE_FULL == 0
ARMING_TYPE_PART1 == 1

AREA_STATE_DISARMED == 0
AREA_STATE_ARMED == 3
AREA_STATE_PARTARMED == 4
AREA_STATE_INALARM == 5

ZONETYPE_UNUSED == 0

\* thresholds written as literals in src/texecomConnect.py
IDLE_SECS == 30
ALIVE_HEARTBEAT_SECS == 300
CONNECTION_LOST_SECS == 60
RETRY_SLEEP_SECS == 5
MAX_ZONES_PER_QUERY == 168
ARMED_FLAG_ROW == 21

\* time.time() when event_loop starts; the fields initialised to 0 in
\* __init__ (last_command_time, time_last_heartbeat) lie far before it
Epoch == 1000

(***************************************************************************)
(* Optional values: Python's None and a present value                      *)
(***************************************************************************)
None == <<>>
Some(x) == <<x>>
IsNone(v) == v = <<>>
Val(v) == v[1]

\* the integer None of an unset int field
NoInt == -1

(***************************************************************************)
(* Bytes                                                                   *)
(***************************************************************************)
Byte == 0..255

\* the bit of weight 2^n of a exclusive-or the same bit of b, in place
XorBit(a, b, weight) == ((((a \div weight) % 2) + ((b \div weight) % 2)) % 2) * weight

\* a ^ b on bytes
Xor(a, b) ==
    XorBit(a, b, 1) + XorBit(a, b, 2) + XorBit(a, b, 4) + XorBit(a, b, 8)
    + XorBit(a, b, 16) + XorBit(a, b, 32) + XorBit(a, b, 64) + XorBit(a, b, 128)

RECURSIVE Pow2(_)
Pow2(n) == IF n = 0 THEN 1 ELSE 2 * Pow2(n - 1)

\* bit n (0 based) of the integer v
Bit(v, n) == (v \div Pow2(n)) % 2

\* int.from_bytes(b, "little")
RECURSIVE FromBytesLittle(_)
FromBytesLittle(b) ==
    IF b = <<>> THEN 0 ELSE Head(b) + 256 * FromBytesLittle(Tail(b))

\* n.to_bytes(size, "little"); OverflowError is not modelled, callers stay in range
RECURSIVE ToBytesLittle(_, _)
ToBytesLittle(n, size) ==
    IF size = 0 THEN <<>> ELSE <<n % 256>> \o ToBytesLittle(n \div 256, size - 1)

\* a Python slice b[lo:hi] with 0-based bounds, clipped as Python clips
Slice(b, lo, hi) ==
    LET h == IF hi > Len(b) THEN Len(b) ELSE hi
    IN IF lo >= h THEN <<>> ELSE SubSeq(b, lo + 1, h)

\* n copies of the byte x
Fill(x, n) == [i \in 1..n |-> x]

(***************************************************************************)
(* CRC-8, crcmod.mkCrcFun(poly=0x185, rev=False, initCrc=0xFF)             *)
(***************************************************************************)
CrcPolyLow == 133
CrcInit == 255

CrcShift(c) == IF c >= 128 THEN Xor((c * 2) % 256, CrcPolyLow) ELSE c * 2

CrcByte(c) ==
    CrcShift(CrcShift(CrcShift(CrcShift(CrcShift(CrcShift(CrcShift(CrcShift(c))))))))

CrcTable == [b \in Byte |-> CrcByte(b)]

\* the register after the bytes data[lo..hi], taken in order, by halves
RECURSIVE CrcFold(_, _, _, _)
CrcFold(crc, data, lo, hi) ==
    IF lo > hi THEN crc
    ELSE IF lo = hi THEN CrcTable[Xor(crc, data[lo])]
    ELSE LET mid == (lo + hi) \div 2
             left == CrcFold(crc, data, lo, mid)
         IN IF left \in Byte THEN CrcFold(left, data, mid + 1, hi) ELSE left

crc8_func(data) == CrcFold(CrcInit, data, 1, Len(data))


\* sendcommandbody's frame: 't' 'C' LEN SEQ body CRC
\* a frame whose length byte leaves the CRC byte out
EncodeFrame_length_without_crc(type, seq, body) ==
    LET data == <<HEADER_START, type, Len(body) + 4, seq>> \o body
    IN data \o <<crc8_func(data)>>

EncodeFrame(type, seq, body) ==
    LET data == <<HEADER_START, type, Len(body) + 5, seq>> \o body
    IN data \o <<crc8_func(data)>>

(***************************************************************************)
(* State                                                                   *)
(***************************************************************************)
VARIABLES
    \* fields of TexecomConnect
    s,                      \* the socket: "None", "unconnected" or "connected"
    nextseq,
    last_sequence,
    last_command,           \* None or Some(frame bytes)
    last_command_time,
    time_last_heartbeat,
    last_received_seq,
    lastIdleCommand,
    arm_disarm_reset_queue,
    panel,                  \* numberOfZones, numberOfUsers, numberOfAreas, ...
    highestUsedZone,
    zones,                  \* zone number -> Zone
    areas,                  \* area number -> Area (or None in the table)
    users,                  \* the user numbers stored in self.users
    \* locals of event_loop
    lastConnectedAt,
    notifiedConnectionLoss,
    connected,
    \* control
    stk,                    \* the Python call stack, event_loop at the bottom
    ctl,                    \* where the program blocks: connect, recv, or dead
    clock,                  \* time.time()
    \* what the last step consumed and did, in program order
    rx,
    out,
    \* the most recent newly issued command frame put on the wire
    issued,
    \* the latest message dispatched since that frame was issued, or None
    during,
    \* the number of command frames newly issued so far
    ncmds,
    \* the idle probe recvresponse called last, or None
    lastProbe,
    \* the message of the notification hook invoked last, or None
    lastHook

vars == <<s, nextseq, last_sequence, last_command, last_command_time,
          time_last_heartbeat, last_received_seq, lastIdleCommand,
          arm_disarm_reset_queue, panel, highestUsedZone, zones, areas, users,
          lastConnectedAt, notifiedConnectionLoss, connected,
          stk, ctl, clock, rx, out, issued, during, ncmds, lastProbe,
          lastHook>>

\* the whole state as one record, which the program's functions transform
M ==
    [s |-> s, nextseq |-> nextseq, last_sequence |-> last_sequence,
     last_command |-> last_command, last_command_time |-> last_command_time,
     time_last_heartbeat |-> time_last_heartbeat,
     last_received_seq |-> last_received_seq,
     lastIdleCommand |-> lastIdleCommand,
     arm_disarm_reset_queue |-> arm_disarm_reset_queue,
     panel |-> panel, highestUsedZone |-> highestUsedZone,
     zones |-> zones, areas |-> areas, users |-> users,
     lastConnectedAt |-> lastConnectedAt,
     notifiedConnectionLoss |-> notifiedConnectionLoss,
     connected |-> connected,
     stk |-> stk, ctl |-> ctl, clock |-> clock, out |-> <<>>, issued |-> issued,
     during |-> during, ncmds |-> ncmds, lastProbe |-> lastProbe,
     lastHook |-> lastHook]

Apply(m) ==
    /\ s' = m.s
    /\ nextseq' = m.nextseq
    /\ last_sequence' = m.last_sequence
    /\ last_command' = m.last_command
    /\ last_command_time' = m.last_command_time
    /\ time_last_heartbeat' = m.time_last_heartbeat
    /\ last_received_seq' = m.last_received_seq
    /\ lastIdleCommand' = m.lastIdleCommand
    /\ arm_disarm_reset_queue' = m.arm_disarm_reset_queue
    /\ panel' = m.panel
    /\ highestUsedZone' = m.highestUsedZone
    /\ zones' = m.zones
    /\ areas' = m.areas
    /\ users' = m.users
    /\ lastConnectedAt' = m.lastConnectedAt
    /\ notifiedConnectionLoss' = m.notifiedConnectionLoss
    /\ connected' = m.connected
    /\ stk' = m.stk
    /\ ctl' = m.ctl
    /\ clock' = m.clock
    /\ out' = m.out
    /\ issued' = m.issued
    /\ during' = m.during
    /\ ncmds' = m.ncmds
    /\ lastProbe' = m.lastProbe
    /\ lastHook' = m.lastHook

(***************************************************************************)
(* Control: the call stack and the pending transfer of control             *)
(***************************************************************************)
Top(m) == m.stk[Len(m.stk)]
Pop(m) == [m EXCEPT !.stk = SubSeq(@, 1, Len(@) - 1)]
Push(m, f) == [m EXCEPT !.stk = Append(@, f)]
SetTop(m, f) == [m EXCEPT !.stk[Len(m.stk)] = f]

\* call fn with the arguments a
Call(m, fn, a) == [m EXCEPT !.ctl = [k |-> "call", v |-> [fn |-> fn, a |-> a]]]
\* the function on top of the stack returns v to its caller
Return(m, v) == [Pop(m) EXCEPT !.ctl = [k |-> "ret", v |-> v]]
\* the function on top of the stack raises socket.timeout
RaiseTimeout(m) == [Pop(m) EXCEPT !.ctl = [k |-> "raise", v |-> "socket.timeout"]]
\* an exception nothing catches ends event_loop and with it the process
Die(m, e) == [m EXCEPT !.ctl = [k |-> "dead", v |-> e], !.stk = <<>>]
\* the program blocks in connect or recv
Block(m, on) == [m EXCEPT !.ctl = [k |-> "block", v |-> on]]

Emit(m, e) == [m EXCEPT !.out = Append(@, e)]

\* a consumer callback is invoked (alarm-monitor.py registers all of them)
Fire(m, f, id, v) == Emit(m, [e |-> "cb", f |-> f, id |-> id, v |-> v])

(***************************************************************************)
(* Domain entities                                                         *)
(***************************************************************************)
\* Zone.__init__
Zone(n) ==
    [number |-> n, zoneType |-> ZONETYPE_UNUSED, areaBitmap |-> <<>>,
     areas |-> {}, state |-> NoInt]

\* Area.__init__; isNone marks a table entry self.areas[n] that holds None
Area(n) == [number |-> n, state |-> NoInt, zones |-> {}, isNone |-> FALSE]

NoArea(n) == [Area(n) EXCEPT !.isNone = TRUE]

\* a function with one more (or one replaced) entry
Put(f, k, v) == [x \in DOMAIN f \cup {k} |-> IF x = k THEN v ELSE f[x]]

get_zone(m, zone_number) ==
    IF zone_number \in DOMAIN m.zones THEN m
    ELSE [m EXCEPT !.zones = Put(@, zone_number, Zone(zone_number))]

get_area(m, areaNumber) ==
    IF areaNumber \in DOMAIN m.areas THEN m
    ELSE [m EXCEPT !.areas = Put(@, areaNumber, Area(areaNumber))]


\* Area.save_state: the index into the state texts raises IndexError above 5
AreaStateValid(area_state) == area_state \in 0..AREA_STATE_INALARM

(***************************************************************************)
(* Comms to the panel: closesocket, getnextseq, sendcommandbody,           *)
(* sendcommand                                                             *)
(***************************************************************************)
\* closesocket leaving the handle as it is
closesocket_keeps_handle(m) == m

closesocket(m) == IF m.s # "None" THEN [m EXCEPT !.s = "None"] ELSE m

\* getnextseq wrapping one number early: 255 is never handed out
getnextseq_wraps_early(n) ==
    LET n0 == IF n >= 255 THEN 0 ELSE n
    IN [v |-> n0, nextseq |-> n0 + 1]

\* the sequence number handed out and the counter left behind
getnextseq(n) ==
    LET n0 == IF n = 256 THEN 0 ELSE n
    IN [v |-> n0, nextseq |-> n0 + 1]

\* sendcommandbody noting its sequence number as the last one received too
sendcommandbody_one_counter(m, body) ==
    LET g == getnextseq(m.nextseq)
        m1 == [m EXCEPT !.nextseq = g.nextseq, !.last_sequence = g.v,
                        !.last_received_seq = g.v]
        data == EncodeFrame(HEADER_TYPE_COMMAND, g.v, body)
    IN IF g.v \notin Byte \/ Len(body) + 5 \notin Byte THEN Die(m1, "ValueError")
       ELSE IF m1.s = "None" THEN Die(m1, "AttributeError")
       ELSE IF m1.s # "connected" THEN Die(m1, "OSError")
       ELSE [Emit(m1, [e |-> "send", data |-> data, new |-> TRUE,
                       over |-> ~IsNone(m.last_command), prev |-> m.issued])
               EXCEPT !.last_command = Some(data), !.issued = data, !.during = None,
                      !.ncmds = @ + 1]

sendcommandbody(m, body) ==
    LET g == getnextseq(m.nextseq)
        m1 == [m EXCEPT !.nextseq = g.nextseq, !.last_sequence = g.v]
        data == EncodeFrame(HEADER_TYPE_COMMAND, g.v, body)
    IN IF g.v \notin Byte \/ Len(body) + 5 \notin Byte THEN Die(m1, "ValueError")
       ELSE IF m1.s = "None" THEN Die(m1, "AttributeError")
       ELSE IF m1.s # "connected" THEN Die(m1, "OSError")
       ELSE [Emit(m1, [e |-> "send", data |-> data, new |-> TRUE,
                       over |-> ~IsNone(m.last_command), prev |-> m.issued])
               EXCEPT !.last_command = Some(data), !.issued = data, !.during = None,
                      !.ncmds = @ + 1]

\* the while loop of sendcommand: one more recvresponse, or give up
sendcommand_loop(m) ==
    LET f == Top(m)
    IN IF f.retries > 0
       THEN Call(SetTop(m, [f EXCEPT !.retries = @ - 1]), "recvresponse", <<>>)
       ELSE \* response is still None
            Emit(Return([m EXCEPT !.last_command = None], None),
                 [e |-> "return", cmd |-> f.cmd, v |-> None, lc |-> None,
                  sends |-> f.sends, during |-> m.during])

\* a.cmd is the opcode, a.body None or Some(bytes)
sendcommand(m, a) ==
    LET body == IF IsNone(a.body) THEN <<a.cmd>> ELSE <<a.cmd>> \o Val(a.body)
        m1 == sendcommandbody(m, body)
    IN IF m1.ctl.k = "dead" THEN m1
       ELSE sendcommand_loop(
              Push([m1 EXCEPT !.last_command_time = m1.clock],
                   [fn |-> "sendcommand", cmd |-> a.cmd,
                    retries |-> CMD_RETRIES, sends |-> 1]))

\* recvresponse returned response to sendcommand
sendcommand_ret(m, response) ==
    LET f == Top(m)
        m1 == [m EXCEPT !.last_command = None]
        commandid == Slice(Val(response), 0, 1)
        payload == Slice(Val(response), 1, Len(Val(response)))
        v == IF IsNone(response) THEN None
             ELSE IF commandid # <<f.cmd>> THEN None
             ELSE Some(payload)
    IN Emit(Return(m1, v),
            [e |-> "return", cmd |-> f.cmd, v |-> v, lc |-> m1.last_command,
             sends |-> f.sends, during |-> m.during])

\* sendcommand resending under a fresh sequence number
sendcommand_timeout_renumbered(m) ==
    LET f == Top(m)
        again == EncodeFrame(HEADER_TYPE_COMMAND, getnextseq(m.nextseq).v,
                             Slice(Val(m.last_command), LENGTH_HEADER,
                                   Len(Val(m.last_command)) - 1))
    IN IF IsNone(m.last_command)
       THEN Emit(Return(m, None),
                 [e |-> "return", cmd |-> f.cmd, v |-> None,
                  lc |-> m.last_command, sends |-> f.sends, during |-> m.during])
       ELSE IF m.s = "None" THEN Die(m, "AttributeError")
       ELSE sendcommand_loop(
              SetTop(Emit([m EXCEPT !.last_command_time = m.clock,
                                    !.last_command = Some(again),
                                    !.nextseq = getnextseq(m.nextseq).nextseq],
                          [e |-> "send", data |-> again,
                           new |-> FALSE, over |-> TRUE, prev |-> m.issued]),
                     [f EXCEPT !.sends = @ + 1]))

\* recvresponse raised socket.timeout into sendcommand
sendcommand_timeout(m) ==
    LET f == Top(m)
    IN IF IsNone(m.last_command)
       THEN Emit(Return(m, None),
                 [e |-> "return", cmd |-> f.cmd, v |-> None,
                  lc |-> m.last_command, sends |-> f.sends, during |-> m.during])
       ELSE IF m.s = "None" THEN Die(m, "AttributeError")
       ELSE sendcommand_loop(
              SetTop(Emit([m EXCEPT !.last_command_time = m.clock],
                          [e |-> "send", data |-> Val(m.last_command),
                           new |-> FALSE, over |-> TRUE, prev |-> m.issued]),
                     [f EXCEPT !.sends = @ + 1]))

(***************************************************************************)
(* alive and the event dispatcher                                          *)
(***************************************************************************)
\* alive without its note of the time of the call
alive_forgets_the_time(m) == Fire(m, "on_alive", 0, 0)

alive(m) == Fire([m EXCEPT !.time_last_heartbeat = m.clock], "on_alive", 0, 0)

MAX_ASCII == 127

\* bytes.decode("ascii") succeeds
IsAscii(b) == \A i \in 1..Len(b) : b[i] <= MAX_ASCII

\* payload is the body of an 'M' frame
handle_event_message(m, body) ==
    LET msg_type == Slice(body, 0, 1)
        payload == Slice(body, 1, Len(body))
    IN IF msg_type = <<MSG_DEBUG>> THEN
            IF IsAscii(payload) THEN m ELSE Die(m, "UnicodeDecodeError")
       ELSE IF msg_type = <<MSG_ZONEEVENT>> THEN
            IF Len(payload) \notin {2, 3} THEN m
            ELSE LET zone_number == IF Len(payload) = 2 THEN payload[1]
                                    ELSE payload[1] + 256 * payload[2]
                     zone_bitmap == payload[Len(payload)]
                     m1 == get_zone(m, zone_number)
                     m2 == [m1 EXCEPT !.zones[zone_number].state = zone_bitmap]
                 IN Fire(m2, "on_zone_event", zone_number, zone_bitmap)
       ELSE IF msg_type = <<MSG_AREAEVENT>> THEN
            IF Len(payload) < 2 THEN Die(m, "IndexError")
            ELSE LET area_number == payload[1]
                     area_state == payload[2]
                     m1 == get_area(m, area_number)
                     m2 == [m1 EXCEPT !.areas[area_number].state = area_state]
                 IN IF m1.areas[area_number].isNone THEN Die(m1, "AttributeError")
                    ELSE IF ~AreaStateValid(area_state) THEN Die(m2, "IndexError")
                    ELSE Fire(m2, "on_area_event", area_number, area_state)
       ELSE IF msg_type = <<MSG_OUTPUTEVENT>> THEN
            IF Len(payload) < 2 THEN Die(m, "IndexError") ELSE m
       ELSE IF msg_type = <<MSG_USEREVENT>> THEN
            IF Len(payload) < 2 \/ payload[2] > 2 THEN Die(m, "IndexError") ELSE m
       ELSE m

\* message_event handing the payload to the dispatcher twice
message_event_twice(m, payload) ==
    LET once == handle_event_message(
                    Emit([m EXCEPT !.during = Some(payload)],
                         [e |-> "dispatch", payload |-> payload]),
                    payload)
    IN IF once.ctl.k = "dead" THEN once
       ELSE handle_event_message(
                Emit(once, [e |-> "dispatch", payload |-> payload]), payload)

message_event(m, payload) ==
    handle_event_message(
        Emit([m EXCEPT !.during = Some(payload)],
             [e |-> "dispatch", payload |-> payload]),
        payload)


(***************************************************************************)
(* recvresponse                                                            *)
(***************************************************************************)
PLUS == 43
LETTER_A == 65

\* the heartbeat check and the blocking recv of the header
recvresponse_recv(m) ==
    LET m1 == IF m.clock - m.time_last_heartbeat > ALIVE_HEARTBEAT_SECS
              THEN alive(m) ELSE m
    IN IF m1.s = "None" THEN Die(m1, "AttributeError") ELSE Block(m1, "recv")

\* recvresponse_loop draining the queue whether or not a command is outstanding
recvresponse_loop_drains_always(m) ==
    LET f == Top(m)
        time_since_last_command == m.clock - m.last_command_time
    IN IF m.clock - f.startTime > CMD_TIMEOUT THEN RaiseTimeout(m)
       ELSE IF ~(m.last_command_time > 0) THEN Die(m, "AssertionError")
       ELSE IF Len(m.arm_disarm_reset_queue) > 0
       THEN LET request == Head(m.arm_disarm_reset_queue)
                m1 == [m EXCEPT !.arm_disarm_reset_queue = Tail(@)]
            IN Call(SetTop(Emit(m1, [e |-> "dequeue", req |-> request,
                                     lc |-> m.last_command]),
                           [f EXCEPT !.at = "drain"]),
                    "arm_disarm_reset_area", request)
       ELSE IF time_since_last_command > IDLE_SECS
       THEN LET probe == IF m.lastIdleCommand = 0 THEN "get_changed_zones_state"
                         ELSE "get_armed_area_state"
            IN Call(SetTop(Emit([m EXCEPT !.lastProbe = Some(probe)],
                                [e |-> "idle", lc |-> m.last_command,
                                 probe |-> probe]),
                           [f EXCEPT !.at = "idle"]),
                    probe, <<>>)
       ELSE recvresponse_recv(m)

\* recvresponse_loop taking the youngest request from the queue
recvresponse_loop_pops_last(m) ==
    LET f == Top(m)
        time_since_last_command == m.clock - m.last_command_time
    IN IF m.clock - f.startTime > CMD_TIMEOUT THEN RaiseTimeout(m)
       ELSE IF ~(m.last_command_time > 0) THEN Die(m, "AssertionError")
       ELSE IF IsNone(m.last_command) /\ Len(m.arm_disarm_reset_queue) > 0
       THEN LET q == m.arm_disarm_reset_queue
                request == q[Len(q)]
                m1 == [m EXCEPT !.arm_disarm_reset_queue = SubSeq(q, 1, Len(q) - 1)]
            IN Call(SetTop(Emit(m1, [e |-> "dequeue", req |-> request,
                                     lc |-> m.last_command]),
                           [f EXCEPT !.at = "drain"]),
                    "arm_disarm_reset_area", request)
       ELSE IF time_since_last_command > IDLE_SECS
       THEN LET probe == IF m.lastIdleCommand = 0 THEN "get_changed_zones_state"
                         ELSE "get_armed_area_state"
            IN Call(SetTop(Emit([m EXCEPT !.lastProbe = Some(probe)],
                                [e |-> "idle", lc |-> m.last_command,
                                 probe |-> probe]),
                           [f EXCEPT !.at = "idle"]),
                    probe, <<>>)
       ELSE recvresponse_recv(m)

\* recvresponse starting an idle probe only after 60 s without a command
recvresponse_loop_probes_after_a_minute(m) ==
    LET f == Top(m)
        time_since_last_command == m.clock - m.last_command_time
    IN IF m.clock - f.startTime > CMD_TIMEOUT THEN RaiseTimeout(m)
       ELSE IF ~(m.last_command_time > 0) THEN Die(m, "AssertionError")
       ELSE IF IsNone(m.last_command) /\ Len(m.arm_disarm_reset_queue) > 0
       THEN LET request == Head(m.arm_disarm_reset_queue)
                m1 == [m EXCEPT !.arm_disarm_reset_queue = Tail(@)]
            IN Call(SetTop(Emit(m1, [e |-> "dequeue", req |-> request,
                                     lc |-> m.last_command]),
                           [f EXCEPT !.at = "drain"]),
                    "arm_disarm_reset_area", request)
       ELSE IF time_since_last_command > 2 * IDLE_SECS
       THEN LET probe == IF m.lastIdleCommand = 0 THEN "get_changed_zones_state"
                         ELSE "get_armed_area_state"
            IN Call(SetTop(Emit([m EXCEPT !.lastProbe = Some(probe)],
                                [e |-> "idle", lc |-> m.last_command,
                                 probe |-> probe]),
                           [f EXCEPT !.at = "idle"]),
                    probe, <<>>)
       ELSE recvresponse_recv(m)

\* recvresponse relying on the timeout of recv alone to end its window
recvresponse_loop_waits_for_recv_timeout(m) ==
    LET f == Top(m)
        time_since_last_command == m.clock - m.last_command_time
    IN IF ~(m.last_command_time > 0) THEN Die(m, "AssertionError")
       ELSE IF IsNone(m.last_command) /\ Len(m.arm_disarm_reset_queue) > 0
       THEN LET request == Head(m.arm_disarm_reset_queue)
                m1 == [m EXCEPT !.arm_disarm_reset_queue = Tail(@)]
            IN Call(SetTop(Emit(m1, [e |-> "dequeue", req |-> request,
                                     lc |-> m.last_command]),
                           [f EXCEPT !.at = "drain"]),
                    "arm_disarm_reset_area", request)
       ELSE IF time_since_last_command > IDLE_SECS
       THEN LET probe == IF m.lastIdleCommand = 0 THEN "get_changed_zones_state"
                         ELSE "get_armed_area_state"
            IN Call(SetTop(Emit([m EXCEPT !.lastProbe = Some(probe)],
                                [e |-> "idle", lc |-> m.last_command,
                                 probe |-> probe]),
                           [f EXCEPT !.at = "idle"]),
                    probe, <<>>)
       ELSE recvresponse_recv(m)

\* the top of the while loop: window timeout, queue drain, idle probe
recvresponse_loop(m) ==
    LET f == Top(m)
        time_since_last_command == m.clock - m.last_command_time
    IN IF m.clock - f.startTime > CMD_TIMEOUT THEN RaiseTimeout(m)
       ELSE IF ~(m.last_command_time > 0) THEN Die(m, "AssertionError")
       ELSE IF IsNone(m.last_command) /\ Len(m.arm_disarm_reset_queue) > 0
       THEN LET request == Head(m.arm_disarm_reset_queue)
                m1 == [m EXCEPT !.arm_disarm_reset_queue = Tail(@)]
            IN Call(SetTop(Emit(m1, [e |-> "dequeue", req |-> request,
                                     lc |-> m.last_command]),
                           [f EXCEPT !.at = "drain"]),
                    "arm_disarm_reset_area", request)
       ELSE IF time_since_last_command > IDLE_SECS
       THEN LET probe == IF m.lastIdleCommand = 0 THEN "get_changed_zones_state"
                         ELSE "get_armed_area_state"
            IN Call(SetTop(Emit([m EXCEPT !.lastProbe = Some(probe)],
                                [e |-> "idle", lc |-> m.last_command,
                                 probe |-> probe]),
                           [f EXCEPT !.at = "idle"]),
                    probe, <<>>)
       ELSE recvresponse_recv(m)

recvresponse(m) ==
    recvresponse_loop(
        Push(m, [fn |-> "recvresponse", startTime |-> m.clock, at |-> "loop"]))

\* recvresponse leaving lastIdleCommand as it is when a probe returns
recvresponse_ret_same_probe_again(m, result) ==
    LET f == Top(m)
    IN IF f.at = "idle"
       THEN IF IsNone(result) THEN Return(closesocket(m), None)
            ELSE recvresponse_recv(m)
       ELSE recvresponse_recv(m)

\* arm_disarm_reset_area or the idle probe returned into recvresponse
recvresponse_ret(m, result) ==
    LET f == Top(m)
    IN IF f.at = "idle"
       THEN LET n == m.lastIdleCommand + 1
                m1 == [m EXCEPT !.lastIdleCommand = IF n = 2 THEN 0 ELSE n]
            IN IF IsNone(result) THEN Return(closesocket(m1), None)
               ELSE recvresponse_recv(m1)
       ELSE recvresponse_recv(m)

\* the duplicate filter dropping every message but the successor of the last
IsDuplicateMessage_unless_successor(m, msg_sequence) ==
    m.last_received_seq # -1 /\ msg_sequence # (m.last_received_seq + 1) % 256

\* the unsolicited-message branch: duplicate filter and last_received_seq
IsDuplicateMessage(m, msg_sequence) ==
    m.last_received_seq # -1 /\ msg_sequence = m.last_received_seq

\* recvresponse returning to its caller once a message has been dispatched
recvresponse_data_message_ends_wait(m, chunk) ==
    LET header == Slice(chunk, 0, LENGTH_HEADER)
        msg_start == header[1]
        msg_type == header[2]
        msg_length == header[3]
        msg_sequence == header[4]
        expected_len == msg_length - LENGTH_HEADER
        raw == Slice(chunk, LENGTH_HEADER, LENGTH_HEADER + expected_len)
        payload == Slice(raw, 0, Len(raw) - 1)
        msg_crc == raw[Len(raw)]
        expected_crc == crc8_func(header \o payload)
    IN IF header = <<PLUS, PLUS, PLUS>> THEN Return(closesocket(m), None)
       ELSE IF header = <<PLUS, PLUS, PLUS, LETTER_A>>
       THEN Return(closesocket(m), None)
       ELSE IF Len(header) = 0 THEN Return(closesocket(m), None)
       ELSE IF Len(header) < LENGTH_HEADER THEN recvresponse_loop(m)
       ELSE IF msg_start # HEADER_START THEN Return(m, None)
       ELSE IF expected_len < 0 THEN Die(m, "ValueError")
       ELSE IF Len(raw) < expected_len THEN recvresponse_loop(m)
       ELSE IF Len(raw) = 0 THEN Die(m, "IndexError")
       ELSE IF msg_crc # expected_crc THEN Return(m, None)
       ELSE IF msg_type = HEADER_TYPE_RESPONSE
       THEN IF msg_sequence # m.last_sequence THEN recvresponse_loop(m)
            ELSE Return(m, Some(payload))
       ELSE IF msg_type = HEADER_TYPE_MESSAGE
       THEN IF IsDuplicateMessage(m, msg_sequence) THEN recvresponse_loop(m)
            ELSE LET m1 == message_event(
                             [m EXCEPT !.last_received_seq = msg_sequence],
                             payload)
                 IN IF m1.ctl.k = "dead" THEN m1 ELSE Return(m1, None)
       ELSE IF msg_type = HEADER_TYPE_COMMAND THEN Return(m, None)
       ELSE recvresponse_loop(m)

\* recvresponse returning a response whatever its sequence byte
recvresponse_data_returns_any_response(m, chunk) ==
    LET header == Slice(chunk, 0, LENGTH_HEADER)
        msg_start == header[1]
        msg_type == header[2]
        msg_length == header[3]
        msg_sequence == header[4]
        expected_len == msg_length - LENGTH_HEADER
        raw == Slice(chunk, LENGTH_HEADER, LENGTH_HEADER + expected_len)
        payload == Slice(raw, 0, Len(raw) - 1)
        msg_crc == raw[Len(raw)]
        expected_crc == crc8_func(header \o payload)
    IN IF header = <<PLUS, PLUS, PLUS>> THEN Return(closesocket(m), None)
       ELSE IF header = <<PLUS, PLUS, PLUS, LETTER_A>>
       THEN Return(closesocket(m), None)
       ELSE IF Len(header) = 0 THEN Return(closesocket(m), None)
       ELSE IF Len(header) < LENGTH_HEADER THEN recvresponse_loop(m)
       ELSE IF msg_start # HEADER_START THEN Return(m, None)
       ELSE IF expected_len < 0 THEN Die(m, "ValueError")
       ELSE IF Len(raw) < expected_len THEN recvresponse_loop(m)
       ELSE IF Len(raw) = 0 THEN Die(m, "IndexError")
       ELSE IF msg_crc # expected_crc THEN Return(m, None)
       ELSE IF msg_type = HEADER_TYPE_RESPONSE
       THEN Return(m, Some(payload))
       ELSE IF msg_type = HEADER_TYPE_MESSAGE
       THEN IF IsDuplicateMessage(m, msg_sequence) THEN recvresponse_loop(m)
            ELSE LET m1 == message_event(
                             [m EXCEPT !.last_received_seq = msg_sequence],
                             payload)
                 IN IF m1.ctl.k = "dead" THEN m1 ELSE recvresponse_loop(m1)
       ELSE IF msg_type = HEADER_TYPE_COMMAND THEN Return(m, None)
       ELSE recvresponse_loop(m)

\* recv returned the bytes chunk: header, payload, CRC, routing by type
recvresponse_data(m, chunk) ==
    LET header == Slice(chunk, 0, LENGTH_HEADER)
        msg_start == header[1]
        msg_type == header[2]
        msg_length == header[3]
        msg_sequence == header[4]
        expected_len == msg_length - LENGTH_HEADER
        raw == Slice(chunk, LENGTH_HEADER, LENGTH_HEADER + expected_len)
        payload == Slice(raw, 0, Len(raw) - 1)
        msg_crc == raw[Len(raw)]
        expected_crc == crc8_func(header \o payload)
    IN IF header = <<PLUS, PLUS, PLUS>> THEN Return(closesocket(m), None)
       ELSE IF header = <<PLUS, PLUS, PLUS, LETTER_A>>
       THEN Return(closesocket(m), None)
       ELSE IF Len(header) = 0 THEN Return(closesocket(m), None)
       ELSE IF Len(header) < LENGTH_HEADER THEN recvresponse_loop(m)
       ELSE IF msg_start # HEADER_START THEN Return(m, None)
       ELSE IF expected_len < 0 THEN Die(m, "ValueError")
       ELSE IF Len(raw) < expected_len THEN recvresponse_loop(m)
       ELSE IF Len(raw) = 0 THEN Die(m, "IndexError")
       ELSE IF msg_crc # expected_crc THEN Return(m, None)
       ELSE IF msg_type = HEADER_TYPE_RESPONSE
       THEN IF msg_sequence # m.last_sequence THEN recvresponse_loop(m)
            ELSE Return(m, Some(payload))
       ELSE IF msg_type = HEADER_TYPE_MESSAGE
       THEN IF IsDuplicateMessage(m, msg_sequence) THEN recvresponse_loop(m)
            ELSE LET m1 == message_event(
                             [m EXCEPT !.last_received_seq = msg_sequence],
                             payload)
                 IN IF m1.ctl.k = "dead" THEN m1 ELSE recvresponse_loop(m1)
       ELSE IF msg_type = HEADER_TYPE_COMMAND THEN Return(m, None)
       ELSE recvresponse_loop(m)


(***************************************************************************)
(* The commands, in the order of src/texecomConnect.py.  Each function     *)
(* f(m, ...) pushes its frame and calls sendcommand (or another function); *)
(* f_ret(m, v) continues it when the callee has returned v.                *)
(***************************************************************************)
\* the UDL password "1234" (the default of alarm-monitor.py)
UdlPassword == <<49, 50, 51, 52>>

\* alarm-monitor.py calls enable_output_events(False)
requestPanelOutputEvents == FALSE

PANELID_LEN == 32
DATETIME_LEN == 6
SYSTEMPOWER_LEN == 5
LOGPOINTER_LEN == 2
AREADETAILS_LEN == 25
ZONEDETAILS_LEN == 33
USER_LEN == 23
MAX_ZONE_TYPE == 21
CallSend(m, frame, cmd, body) ==
    Call(Push(m, frame), "sendcommand", [cmd |-> cmd, body |-> body])

login(m) == CallSend(m, [fn |-> "login"], CMD_LOGIN, Some(UdlPassword))

login_ret(m, response) ==
    IF IsNone(response) THEN Return(m, FALSE)
    ELSE IF Val(response) = <<CMD_RESPONSE_NAK>> THEN Return(m, FALSE)
    ELSE IF Val(response) # <<CMD_RESPONSE_ACK>> THEN Return(m, FALSE)
    ELSE Return(m, TRUE)

get_zone_state(m, a) ==
    IF a.numZones = NoInt THEN Die(m, "TypeError")
    ELSE LET numZones == IF a.numZones > MAX_ZONES_PER_QUERY
                         THEN MAX_ZONES_PER_QUERY ELSE a.numZones
             body == <<a.startZone % 256, numZones % 256>>
         IN CallSend(m, [fn |-> "get_zone_state", startZone |-> a.startZone,
                         numZones |-> numZones],
                     CMD_GETZONESTATE, Some(body))

\* the for loop of get_zone_state over the state bytes of the response, from
\* the index idx on: get_zone creates the zones the table lacks, and a zone
\* in use whose state differs is saved and reported, in ascending order
ZoneStateLoop(m, details, startZone, idx, numZones) ==
    LET named == {startZone + i : i \in idx..(numZones - 1)}
        table == [z \in DOMAIN m.zones \cup named |->
                     IF z \in DOMAIN m.zones THEN m.zones[z] ELSE Zone(z)]
        newState(z) == details[z - startZone + 1]
        changed(z) == table[z].zoneType # ZONETYPE_UNUSED
                      /\ table[z].state # newState(z)
        order == SelectSeq([i \in 1..(numZones - idx) |-> startZone + idx + i - 1],
                           changed)
        events == [i \in 1..Len(order) |->
                      [e |-> "cb", f |-> "on_zone_event", id |-> order[i],
                       v |-> newState(order[i])]]
    IN [m EXCEPT !.zones = [z \in DOMAIN table |->
                               IF z \in named /\ changed(z)
                               THEN [table[z] EXCEPT !.state = newState(z)]
                               ELSE table[z]],
                 !.out = @ \o events]

get_zone_state_ret(m, details) ==
    LET f == Top(m)
    IN IF IsNone(details) THEN Return(m, None)
       ELSE IF Len(Val(details)) = f.numZones
       THEN Return(ZoneStateLoop(m, Val(details), f.startZone, 0, f.numZones),
                   Some(f.numZones))
       ELSE Return(m, None)

get_zone_details(m, zone_number) ==
    IF m.panel.zoneNumSize = NoInt THEN Die(m, "TypeError")
    ELSE CallSend(m, [fn |-> "get_zone_details", zone_number |-> zone_number],
                  CMD_GETZONEDETAILS,
                  Some(ToBytesLittle(zone_number, m.panel.zoneNumSize)))

get_zone_details_ret(m, details) ==
    LET f == Top(m)
        n == f.zone_number
        d == Val(details)
        abs == m.panel.areaBitmapSize
        m1 == get_zone(m, n)
        m2 == [m1 EXCEPT !.zones[n].zoneType = d[1],
                         !.zones[n].areaBitmap = Slice(d, 1, abs + 1)]
    IN IF IsNone(details) THEN Return(m, None)
       ELSE IF Len(d) # ZONEDETAILS_LEN + abs THEN Return(m, None)
       ELSE IF d[1] > MAX_ZONE_TYPE THEN Die(m1, "KeyError")
       ELSE IF ~IsAscii(Slice(d, abs + 1, Len(d))) THEN Die(m2, "UnicodeDecodeError")
       ELSE IF d[1] # ZONETYPE_UNUSED
       THEN Return(Fire(m2, "on_zone_details", n, d[1]), Some(n))
       ELSE Return(m2, Some(n))

\* arm_disarm_reset_area that knows CMD_ARMAREAS alone
arm_disarm_reset_area_arms_only(m, request) ==
    LET abs == m.panel.areaBitmapSize
        bitmap == IF abs = NoInt THEN request.area_bitmap
                  ELSE Slice(request.area_bitmap, 0, abs)
        m1 == Push(m, [fn |-> "arm_disarm_reset_area", cmd |-> request.cmd])
    IN IF request.cmd = CMD_ARMAREAS
       THEN Call(m1, "sendcommand",
                 [cmd |-> request.cmd, body |-> Some(request.arm_type \o bitmap)])
       ELSE Return(m1, FALSE)

\* request is [cmd, arm_type (None or Some(byte)), area_bitmap]
arm_disarm_reset_area(m, request) ==
    LET abs == m.panel.areaBitmapSize
        bitmap == IF abs = NoInt THEN request.area_bitmap
                  ELSE Slice(request.area_bitmap, 0, abs)
        m1 == Push(m, [fn |-> "arm_disarm_reset_area", cmd |-> request.cmd])
    IN IF request.cmd = CMD_ARMAREAS
       THEN Call(m1, "sendcommand",
                 [cmd |-> request.cmd, body |-> Some(request.arm_type \o bitmap)])
       ELSE IF request.cmd \in {CMD_DISARMAREAS, CMD_RESETAREAS}
       THEN Call(m1, "sendcommand", [cmd |-> request.cmd, body |-> Some(bitmap)])
       ELSE Return(m1, FALSE)

arm_disarm_reset_area_ret(m, response) ==
    IF IsNone(response) THEN Return(m, FALSE)
    ELSE IF Val(response) = <<CMD_RESPONSE_NAK>> THEN Return(m, FALSE)
    ELSE IF Val(response) # <<CMD_RESPONSE_ACK>> THEN Return(m, FALSE)
    ELSE Return(m, TRUE)

get_area_flags(m, a) ==
    LET numAreaFlags == IF m.panel.numberOfZones = 640 /\ a.numAreaFlags > 31
                        THEN 31 ELSE a.numAreaFlags
        body == <<a.startAreaFlag % 256, numAreaFlags % 256>>
    IN CallSend(m, [fn |-> "get_area_flags", startAreaFlag |-> a.startAreaFlag,
                    numAreaFlags |-> numAreaFlags],
                CMD_GETAREAFLAGS, Some(body))

\* the dictionary of rows, each a slice one byte longer than a row
get_area_flags_ret(m, details) ==
    LET f == Top(m)
        abs == m.panel.areaBitmapSize
        d == Val(details)
        rows == [r \in f.startAreaFlag..(f.startAreaFlag + f.numAreaFlags - 1) |->
                   Slice(d, abs * (r - f.startAreaFlag),
                         abs * (r - f.startAreaFlag) + abs + 1)]
    IN IF IsNone(details) THEN Return(m, None)
       ELSE IF abs = NoInt THEN Die(m, "TypeError")
       ELSE IF Len(d) = abs * f.numAreaFlags THEN Return(m, Some(rows))
       ELSE Return(m, None)

\* commands whose response is only logged
get_log_pointer(m) ==
    CallSend(m, [fn |-> "get_log_pointer"], CMD_GETLOGPOINTER, None)

get_log_pointer_ret(m, resp) ==
    IF IsNone(resp) THEN Return(m, None)
    ELSE IF Len(Val(resp)) # LOGPOINTER_LEN THEN Return(m, None)
    ELSE Return(m, Some(Val(resp)[1] + 256 * Val(resp)[2]))

get_panel_identification(m) ==
    CallSend(m, [fn |-> "get_panel_identification"],
             CMD_GETPANELIDENTIFICATION, None)

get_panel_identification_ret(m, panelid) ==
    IF IsNone(panelid) THEN Return(m, None)
    ELSE IF Len(Val(panelid)) # PANELID_LEN THEN Return(m, None)
    ELSE IF ~IsAscii(Val(panelid)) THEN Die(m, "UnicodeDecodeError")
    ELSE Return(m, panelid)

\* the panel is taken to report a date datetime.datetime accepts
get_date_time(m) == CallSend(m, [fn |-> "get_date_time"], CMD_GETDATETIME, None)

get_date_time_ret(m, resp) ==
    IF IsNone(resp) THEN Return(m, None)
    ELSE IF Len(Val(resp)) < DATETIME_LEN THEN Return(m, None)
    ELSE Return(m, resp)

get_system_power(m) ==
    CallSend(m, [fn |-> "get_system_power"], CMD_GETSYSTEMPOWER, None)

get_system_power_ret(m, details) ==
    IF IsNone(details) THEN Return(m, None)
    ELSE IF Len(Val(details)) # SYSTEMPOWER_LEN THEN Return(m, None)
    ELSE Return(m, details)


\* the characters \w of the regular expression, within ASCII
IsWordChar(b) ==
    \/ b \in 48..57
    \/ b \in 65..90
    \/ b \in 97..122
    \/ b = 95

\* the text left after replace, re.sub(r"\W+", " ") and strip is not empty
HasText(b) == \E i \in 1..Len(b) : IsWordChar(b[i])

RECURSIVE bcdDecodeBytes(_)
bcdDecodeBytes(bcd) ==
    IF bcd = <<>> THEN <<>>
    ELSE LET hi == Head(bcd) \div 16
             lo == Head(bcd) % 16
         IN (IF hi <= 9 THEN <<hi>> ELSE <<>>) \o
            (IF lo <= 9 THEN <<lo>> ELSE <<>>) \o bcdDecodeBytes(Tail(bcd))

\* User.valid() of user.py: validity is determined by name/passcode presence
UserValid(name, passcode) == HasText(name) /\ Len(passcode) > 0

get_user(m, usernumber) ==
    IF m.panel.zoneNumSize = NoInt THEN Die(m, "TypeError")
    ELSE IF usernumber >= Pow2(8 * m.panel.zoneNumSize) THEN Die(m, "OverflowError")
    ELSE CallSend(m, [fn |-> "get_user", usernumber |-> usernumber], CMD_GETUSER,
                  Some(ToBytesLittle(usernumber, m.panel.zoneNumSize)))

\* the user returned is [valid |-> ...], all that get_all_users reads of it
get_user_ret(m, details) ==
    LET d == Val(details)
    IN IF IsNone(details) THEN Return(m, None)
       ELSE IF Len(d) # USER_LEN THEN Return(m, None)
       ELSE IF ~IsAscii(Slice(d, 0, 8)) THEN Die(m, "UnicodeDecodeError")
       ELSE Return(m, Some([valid |-> UserValid(Slice(d, 0, 8),
                                                bcdDecodeBytes(Slice(d, 8, 11)))]))

get_area_details(m, areaNumber) ==
    IF areaNumber \notin Byte THEN Die(m, "ValueError")
    ELSE CallSend(m, [fn |-> "get_area_details", areaNumber |-> areaNumber],
                  CMD_GETAREADETAILS, Some(<<areaNumber>>))

get_area_details_ret(m, details) ==
    LET n == Top(m).areaNumber
        d == Val(details)
        m1 == get_area(m, n)
    IN IF IsNone(details) THEN Return(m, None)
       ELSE IF Len(d) # AREADETAILS_LEN THEN Return(m1, Some(n))
       ELSE IF ~IsAscii(Slice(d, 1, 17)) THEN Die(m1, "UnicodeDecodeError")
       ELSE IF m1.areas[n].isNone THEN Die(m1, "AttributeError")
       ELSE Return(Fire(m1, "on_area_details", n, 0), Some(n))

get_zone_changes(m) ==
    CallSend(m, [fn |-> "get_zone_changes"], CMD_GETZONECHANGES, None)

get_zone_changes_ret(m, details) ==
    IF IsNone(details) THEN Return(m, None)
    ELSE IF Len(Val(details)) = m.panel.zoneBitmapSize THEN Return(m, details)
    ELSE Return(m, None)

ZONE_EVENT_FLAG == 2
AREA_EVENT_FLAG == 4
OUTPUT_EVENT_FLAG == 8
USER_EVENT_FLAG == 16
LOG_FLAG == 32

\* the flags are distinct bits, so | is +
set_event_messages(m) ==
    LET events == ZONE_EVENT_FLAG + AREA_EVENT_FLAG + USER_EVENT_FLAG + LOG_FLAG
                  + (IF requestPanelOutputEvents THEN OUTPUT_EVENT_FLAG ELSE 0)
    IN CallSend(m, [fn |-> "set_event_messages"], CMD_SETEVENTMESSAGES,
                Some(ToBytesLittle(events, 2)))

set_event_messages_ret(m, response) ==
    IF IsNone(response) THEN Return(m, FALSE)
    ELSE IF Val(response) = <<CMD_RESPONSE_NAK>> THEN Return(m, FALSE)
    ELSE IF Val(response) # <<CMD_RESPONSE_ACK>> THEN Return(m, FALSE)
    ELSE Return(m, TRUE)


(***************************************************************************)
(* Helpers for processing texecom data                                     *)
(***************************************************************************)
\* the ASCII characters str.split() splits on
IsSpace(b) == b \in 9..13 \/ b \in 28..32

\* idstr.split(): the maximal runs of characters that are not whitespace,
\* the k-th of them running from the k-th start to the end that follows it
Split(b) ==
    LET starts == {i \in 1..Len(b) :
                     ~IsSpace(b[i]) /\ (i = 1 \/ IsSpace(b[i - 1]))}
        start(k) == CHOOSE i \in starts :
                      Cardinality({j \in starts : j < i}) = k - 1
        end(i) == CHOOSE e \in i..Len(b) :
                    /\ \A j \in i..e : ~IsSpace(b[j])
                    /\ (e = Len(b) \/ IsSpace(b[e + 1]))
    IN [k \in 1..Cardinality(starts) |-> SubSeq(b, start(k), end(start(k)))]

IsDigits(t) == Len(t) > 0 /\ \A i \in 1..Len(t) : t[i] \in 48..57

RECURSIVE DigitsValue(_)
DigitsValue(t) ==
    IF t = <<>> THEN 0 ELSE 10 * DigitsValue(SubSeq(t, 1, Len(t) - 1)) + (t[Len(t)] - 48)

zone2NumberOfUsers ==
    (12 :> 8) @@ (24 :> 25) @@ (48 :> 50) @@ (64 :> 50) @@ (88 :> 100)
    @@ (168 :> 200) @@ (640 :> 1000)

zone2NumberOfAreas ==
    (12 :> 2) @@ (24 :> 2) @@ (48 :> 4) @@ (64 :> 4) @@ (88 :> 8)
    @@ (168 :> 16) @@ (640 :> 64)

zone2AreaBitmapSize ==
    (12 :> 1) @@ (24 :> 1) @@ (48 :> 1) @@ (64 :> 1) @@ (88 :> 1)
    @@ (168 :> 2) @@ (640 :> 8)

zone2ZoneNumSize ==
    (12 :> 1) @@ (24 :> 1) @@ (48 :> 1) @@ (64 :> 1) @@ (88 :> 1)
    @@ (168 :> 1) @@ (640 :> 2)

get_number_zones(m) ==
    Call(Push(m, [fn |-> "get_number_zones"]), "get_panel_identification", <<>>)

\* int() of a token of decimal digits; any other token raises ValueError
get_number_zones_ret(m, idstr) ==
    LET tokens == Split(Val(idstr))
        n == DigitsValue(tokens[2])
        m1 == [m EXCEPT !.panel.numberOfZones = n]
    IN IF IsNone(idstr) THEN Return(m, None)
       ELSE IF Len(tokens) # 4 THEN Die(m, "ValueError")
       ELSE IF ~IsDigits(tokens[2]) THEN Die(m, "ValueError")
       ELSE IF n \notin DOMAIN zone2NumberOfUsers THEN Die(m1, "KeyError")
       ELSE Return([m1 EXCEPT !.panel.numberOfUsers = zone2NumberOfUsers[n],
                              !.panel.numberOfAreas = zone2NumberOfAreas[n],
                              !.panel.areaBitmapSize = zone2AreaBitmapSize[n],
                              !.panel.zoneBitmapSize = n \div 8,
                              !.panel.zoneNumSize = zone2ZoneNumSize[n]],
                   None)

\* associateZoneWithAreas leaving the zone in the area it no longer belongs to
AssociateLoop_keeps_area_zones(m, z, flags, areanumber) ==
    LET last == m.panel.numberOfAreas
        absent == {a \in areanumber..last : a \in DOMAIN m.areas /\ m.areas[a].isNone}
        stop == IF absent = {} THEN last + 1
                ELSE CHOOSE a \in absent : \A b \in absent : a <= b
        done == areanumber..(stop - 1)
        flag(a) == IF a - areanumber > 30 THEN 0 ELSE Bit(flags, a - areanumber)
        set == {a \in done : flag(a) = 1}
        cleared == done \ set
        table == [a \in DOMAIN m.areas \cup done |->
                     IF a \in DOMAIN m.areas THEN m.areas[a] ELSE Area(a)]
        m2 == [m EXCEPT !.zones[z].areas = (@ \cup set) \ cleared,
                        !.areas = [a \in DOMAIN table |->
                            IF a \in set THEN [table[a] EXCEPT !.zones = @ \cup {z}]
                            ELSE table[a]]]
    IN IF stop <= last THEN Die(m2, "AttributeError") ELSE m2

\* the for loop of associateZoneWithAreas, every area at once: area a reads bit
\* a - areanumber of flags; a None in the area table raises at that area
AssociateLoop(m, z, flags, areanumber) ==
    LET last == m.panel.numberOfAreas
        absent == {a \in areanumber..last : a \in DOMAIN m.areas /\ m.areas[a].isNone}
        stop == IF absent = {} THEN last + 1
                ELSE CHOOSE a \in absent : \A b \in absent : a <= b
        done == areanumber..(stop - 1)
        flag(a) == IF a - areanumber > 30 THEN 0 ELSE Bit(flags, a - areanumber)
        set == {a \in done : flag(a) = 1}
        cleared == done \ set
        table == [a \in DOMAIN m.areas \cup done |->
                     IF a \in DOMAIN m.areas THEN m.areas[a] ELSE Area(a)]
        m2 == [m EXCEPT !.zones[z].areas = (@ \cup set) \ cleared,
                        !.areas = [a \in DOMAIN table |->
                            IF a \in set THEN [table[a] EXCEPT !.zones = @ \cup {z}]
                            ELSE IF a \in cleared
                                 THEN [table[a] EXCEPT !.zones = @ \ {z}]
                            ELSE table[a]]]
    IN IF stop <= last THEN Die(m2, "AttributeError") ELSE m2

associateZoneWithAreas(m, z) ==
    AssociateLoop(m, z, FromBytesLittle(m.zones[z].areaBitmap), 1)

\* saveAreasCurrentArmedState saving whatever state differs from the stored one
RECURSIVE SaveAreasLoop_saves_any_change(_, _, _, _)
SaveAreasLoop_saves_any_change(m, flags, areaStateWhenTrue, areanumber) ==
    IF areanumber > m.panel.numberOfAreas THEN m
    ELSE LET m1 == get_area(m, areanumber)
             area == m1.areas[areanumber]
             newState == IF flags % 2 = 1 THEN areaStateWhenTrue
                         ELSE IF area.state = NoInt THEN AREA_STATE_DISARMED
                         ELSE area.state
             m2 == IF area.state # newState
                   THEN Fire([m1 EXCEPT !.areas[areanumber].state = newState],
                             "on_area_event", areanumber, newState)
                   ELSE m1
         IN IF area.isNone THEN Die(m1, "AttributeError")
            ELSE SaveAreasLoop_saves_any_change(m2, flags \div 2,
                                                areaStateWhenTrue, areanumber + 1)

\* saveAreasCurrentArmedState taking a clear flag to mean disarmed
RECURSIVE SaveAreasLoop_clear_is_disarmed(_, _, _, _)
SaveAreasLoop_clear_is_disarmed(m, flags, areaStateWhenTrue, areanumber) ==
    IF areanumber > m.panel.numberOfAreas THEN m
    ELSE LET m1 == get_area(m, areanumber)
             area == m1.areas[areanumber]
             newState == IF flags % 2 = 1 THEN areaStateWhenTrue
                         ELSE AREA_STATE_DISARMED
             m2 == IF /\ area.state # newState
                      /\ area.state # AREA_STATE_PARTARMED
                      /\ newState # AREA_STATE_ARMED
                   THEN Fire([m1 EXCEPT !.areas[areanumber].state = newState],
                             "on_area_event", areanumber, newState)
                   ELSE m1
         IN IF area.isNone THEN Die(m1, "AttributeError")
            ELSE SaveAreasLoop_clear_is_disarmed(m2, flags \div 2,
                                                 areaStateWhenTrue, areanumber + 1)

\* the for loop of saveAreasCurrentArmedState
RECURSIVE SaveAreasLoop(_, _, _, _)
SaveAreasLoop(m, flags, areaStateWhenTrue, areanumber) ==
    IF areanumber > m.panel.numberOfAreas THEN m
    ELSE LET m1 == get_area(m, areanumber)
             area == m1.areas[areanumber]
             newState == IF flags % 2 = 1 THEN areaStateWhenTrue
                         ELSE IF area.state = NoInt THEN AREA_STATE_DISARMED
                         ELSE area.state
             m2 == IF /\ area.state # newState
                      /\ area.state # AREA_STATE_PARTARMED
                      /\ newState # AREA_STATE_ARMED
                   THEN Fire([m1 EXCEPT !.areas[areanumber].state = newState],
                             "on_area_event", areanumber, newState)
                   ELSE m1
         IN IF area.isNone THEN Die(m1, "AttributeError")
            ELSE SaveAreasLoop(m2, flags \div 2, areaStateWhenTrue, areanumber + 1)

saveAreasCurrentArmedState(m, areaBitmap, areaStateWhenTrue) ==
    IF m.panel.numberOfAreas = NoInt THEN Die(m, "TypeError")
    ELSE SaveAreasLoop(m, FromBytesLittle(areaBitmap), areaStateWhenTrue, 1)

get_armed_area_state(m) ==
    Call(Push(m, [fn |-> "get_armed_area_state"]), "get_area_flags",
         [startAreaFlag |-> ARMED_FLAG_ROW, numAreaFlags |-> 1])

get_armed_area_state_ret(m, outputAreaBitmaps) ==
    IF IsNone(outputAreaBitmaps) THEN Return(m, None)
    ELSE LET m1 == saveAreasCurrentArmedState(
                       m, Val(outputAreaBitmaps)[ARMED_FLAG_ROW], AREA_STATE_ARMED)
         IN IF m1.ctl.k = "dead" THEN m1 ELSE Return(m1, Some(TRUE))


\* int.from_bytes(b, "little") of a bitmap of any length, held as the set of
\* the positions (0 based) of its one bits: flags & 1 is 0 \in flags, and
\* flags == 0 is flags = {}
IntBits(b) ==
    {p \in 0..(8 * Len(b) - 1) : Bit(b[(p \div 8) + 1], p % 8) = 1}

\* flags >> n
ShiftRight(flags, n) == {p - n : p \in {q \in flags : q >= n}}

\* the inner loop without its limit: the whole run is one block
RunLength_whole_run(flags, limit) ==
    CHOOSE n \in 0..Cardinality(flags) :
       /\ \A i \in 0..(n - 1) : i \in flags
       /\ n \notin flags

\* the number of consecutive set bits at the bottom of flags, at most limit
RunLength(flags, limit) ==
    CHOOSE n \in 0..limit :
       /\ \A i \in 0..(n - 1) : i \in flags
       /\ n = limit \/ n \notin flags

\* the number of clear bits below the lowest set bit of flags # 0
ClearLength(flags) == CHOOSE n \in flags : \A p \in flags : n <= p

get_changed_zones_state(m) ==
    Call(Push(m, [fn |-> "get_changed_zones_state", at |-> "changes",
                  changedZonesBitmap |-> <<>>, flags |-> {}, zoneNum |-> 1]),
         "get_zone_changes", <<>>)

\* the outer while loop, up to the next get_zone_state or its end: the clear
\* bits are passed one iteration each, until flags is 0 or zoneNum is beyond
\* highestUsedZone; the inner loop then counts the block
get_changed_zones_state_loop(m) ==
    LET f == Top(m)
        skipped == IF f.flags = {} THEN 0 ELSE ClearLength(f.flags)
        flags == ShiftRight(f.flags, skipped)
        startZoneNum == f.zoneNum + skipped
        numZonesInBlock == RunLength(flags, MAX_ZONES_PER_QUERY)
    IN IF m.highestUsedZone = NoInt THEN Die(m, "TypeError")
       ELSE IF f.zoneNum > m.highestUsedZone THEN Return(m, Some(TRUE))
       ELSE IF f.flags = {} THEN Return(m, Some(TRUE))
       ELSE IF startZoneNum > m.highestUsedZone THEN Return(m, Some(TRUE))
       ELSE Call(SetTop(m, [f EXCEPT !.flags = ShiftRight(flags, numZonesInBlock),
                                     !.zoneNum = startZoneNum + numZonesInBlock,
                                     !.at = "state"]),
                 "get_zone_state",
                 [startZone |-> startZoneNum, numZones |-> numZonesInBlock])

get_changed_zones_state_ret(m, v) ==
    LET f == Top(m)
    IN IF IsNone(v) THEN Return(m, None)
       ELSE IF f.at = "changes"
       THEN get_changed_zones_state_loop(
              SetTop(m, [f EXCEPT !.changedZonesBitmap = Val(v),
                                  !.flags = IntBits(Val(v))]))
       ELSE get_changed_zones_state_loop(m)

get_all_zones_state(m) ==
    Call(Push(m, [fn |-> "get_all_zones_state"]), "get_zone_state",
         [startZone |-> 1, numZones |-> m.highestUsedZone])

get_all_zones_state_ret(m, numZones) == Return(m, numZones)

\* the for loops of get_all_areas, get_all_zones and get_all_users
get_all_areas_loop(m) ==
    LET f == Top(m)
    IN IF f.areanumber > m.panel.numberOfAreas THEN Return(m, None)
       ELSE Call(m, "get_area_details", f.areanumber)

get_all_areas(m) ==
    IF m.panel.numberOfAreas = NoInt THEN Die(m, "TypeError")
    ELSE get_all_areas_loop(Push(m, [fn |-> "get_all_areas", areanumber |-> 1]))

get_all_areas_ret(m, area) ==
    LET f == Top(m)
        m1 == IF IsNone(area)
              THEN [m EXCEPT !.areas = Put(@, f.areanumber, NoArea(f.areanumber))]
              ELSE m
    IN get_all_areas_loop(SetTop(m1, [f EXCEPT !.areanumber = @ + 1]))

get_all_zones_loop(m) ==
    LET f == Top(m)
    IN IF f.zoneNumber > m.panel.numberOfZones THEN Return(m, None)
       ELSE Call(m, "get_zone_details", f.zoneNumber)

get_all_zones(m) ==
    IF m.panel.numberOfZones = NoInt THEN Die(m, "TypeError")
    ELSE get_all_zones_loop(Push(m, [fn |-> "get_all_zones", zoneNumber |-> 1]))

get_all_zones_ret(m, zone) ==
    LET f == Top(m)
        n == f.zoneNumber
        m1 == IF m.zones[n].zoneType # ZONETYPE_UNUSED
              THEN associateZoneWithAreas([m EXCEPT !.highestUsedZone = n], n)
              ELSE m
    IN IF IsNone(zone) THEN Die(m, "AttributeError")
       ELSE IF m1.ctl.k = "dead" THEN m1
       ELSE get_all_zones_loop(SetTop(m1, [f EXCEPT !.zoneNumber = @ + 1]))

get_all_users_loop(m) ==
    LET f == Top(m)
    IN IF f.usernumber >= m.panel.numberOfUsers
       THEN Return([m EXCEPT !.users = @ \cup {0}], None)
       ELSE Call(m, "get_user", f.usernumber)

get_all_users(m) ==
    IF m.panel.numberOfUsers = NoInt THEN Return(Push(m, [fn |-> "get_all_users"]), None)
    ELSE get_all_users_loop(Push(m, [fn |-> "get_all_users", usernumber |-> 1]))

get_all_users_ret(m, user) ==
    LET f == Top(m)
        m1 == IF Val(user).valid THEN [m EXCEPT !.users = @ \cup {f.usernumber}]
              ELSE m
    IN IF IsNone(user) THEN Die(m, "AttributeError")
       ELSE get_all_users_loop(SetTop(m1, [f EXCEPT !.usernumber = @ + 1]))

get_site_data(m) ==
    Call(Push(m, [fn |-> "get_site_data", at |-> "get_all_areas"]),
         "get_all_areas", <<>>)

get_site_data_ret(m, v) ==
    LET f == Top(m)
    IN IF f.at = "get_all_areas"
       THEN Call(SetTop(m, [f EXCEPT !.at = "get_all_zones"]), "get_all_zones", <<>>)
       ELSE IF f.at = "get_all_zones"
       THEN Call(SetTop(m, [f EXCEPT !.at = "get_all_users"]), "get_all_users", <<>>)
       ELSE Return(m, None)


(***************************************************************************)
(* Main event loop.  The frame of event_loop records in `at` the call it   *)
(* is waiting in.  Zone.update() in the inner loop only invokes            *)
(* active_func and smoothed_active_func, which alarm-monitor.py leaves     *)
(* unset, and siteDataChanged is never set, so neither appears here.       *)
(***************************************************************************)
At(m, where) == SetTop(m, [Top(m) EXCEPT !.at = where])

\* os.system("./send-message.sh ...")
Hook(m, msg) ==
    Emit([m EXCEPT !.lastHook = Some(msg)], [e |-> "hook", msg |-> msg])

\* time.sleep
Sleep(m, secs) == [m EXCEPT !.clock = @ + secs]

\* event_loop not noting that it has invoked 'connection lost'
event_loop_top_notifies_again(m) ==
    LET m1 == IF m.connected
              THEN [m EXCEPT !.lastConnectedAt = m.clock, !.connected = FALSE,
                             !.notifiedConnectionLoss = FALSE]
              ELSE m
        connectionLostTime == m1.clock - m1.lastConnectedAt
        m2 == IF connectionLostTime >= CONNECTION_LOST_SECS
                 /\ ~m1.notifiedConnectionLoss
              THEN Hook(m1, "connection lost")
              ELSE m1
        m3 == Emit(m2, [e |-> "connect", s |-> m2.s])
    IN Block(At([m3 EXCEPT !.s = "unconnected"], "connect"), "connect")

\* the head of the outer while loop, up to the blocking connect; the log
\* notes the socket handle connect() finds and replaces
event_loop_top(m) ==
    LET m1 == IF m.connected
              THEN [m EXCEPT !.lastConnectedAt = m.clock, !.connected = FALSE,
                             !.notifiedConnectionLoss = FALSE]
              ELSE m
        connectionLostTime == m1.clock - m1.lastConnectedAt
        m2 == IF connectionLostTime >= CONNECTION_LOST_SECS
                 /\ ~m1.notifiedConnectionLoss
              THEN [Hook(m1, "connection lost") EXCEPT !.notifiedConnectionLoss = TRUE]
              ELSE m1
        m3 == Emit(m2, [e |-> "connect", s |-> m2.s])
    IN Block(At([m3 EXCEPT !.s = "unconnected"], "connect"), "connect")

\* connect() returned after took seconds (the 500ms sleep included), or raised
event_loop_connect(m, ok, took) ==
    IF ok THEN Call(At(Sleep([m EXCEPT !.s = "connected"], took), "login"),
                    "login", <<>>)
    ELSE event_loop_top(Sleep(m, took + RETRY_SLEEP_SECS))

\* while self.s is not None
event_loop_inner(m) ==
    IF m.s # "None" THEN Call(At(m, "recvresponse"), "recvresponse", <<>>)
    ELSE event_loop_top(m)

\* event_loop going on to the topology load whatever set_event_messages returned
event_loop_ret_unchecked_event_messages(m, v) ==
    LET at == Top(m).at
    IN IF at = "login"
       THEN IF ~v THEN event_loop_top(closesocket(Sleep(m, RETRY_SLEEP_SECS)))
            ELSE Call(At(m, "set_event_messages"), "set_event_messages", <<>>)
       ELSE IF at = "set_event_messages"
       THEN LET m1 == [m EXCEPT !.connected = TRUE]
                m2 == IF m1.notifiedConnectionLoss
                      THEN Hook(m1, "connection regained") ELSE m1
            IN Call(At(m2, "get_number_zones"), "get_number_zones", <<>>)
       ELSE IF at = "get_number_zones"
       THEN Call(At(m, "get_date_time"), "get_date_time", <<>>)
       ELSE IF at = "get_date_time"
       THEN Call(At(m, "get_system_power"), "get_system_power", <<>>)
       ELSE IF at = "get_system_power"
       THEN Call(At(m, "get_log_pointer"), "get_log_pointer", <<>>)
       ELSE IF at = "get_log_pointer"
       THEN Call(At(m, "get_site_data"), "get_site_data", <<>>)
       ELSE IF at = "get_site_data"
       THEN Call(At(m, "get_all_zones_state"), "get_all_zones_state", <<>>)
       ELSE IF at = "get_all_zones_state"
       THEN Call(At(m, "get_armed_area_state"), "get_armed_area_state", <<>>)
       ELSE event_loop_inner(m)

\* the statement after the call that returned v
event_loop_ret(m, v) ==
    LET at == Top(m).at
    IN IF at = "login"
       THEN IF ~v THEN event_loop_top(closesocket(Sleep(m, RETRY_SLEEP_SECS)))
            ELSE Call(At(m, "set_event_messages"), "set_event_messages", <<>>)
       ELSE IF at = "set_event_messages"
       THEN IF ~v THEN event_loop_top(closesocket(m))
            ELSE LET m1 == [m EXCEPT !.connected = TRUE]
                     m2 == IF m1.notifiedConnectionLoss
                           THEN Hook(m1, "connection regained") ELSE m1
                 IN Call(At(m2, "get_number_zones"), "get_number_zones", <<>>)
       ELSE IF at = "get_number_zones"
       THEN Call(At(m, "get_date_time"), "get_date_time", <<>>)
       ELSE IF at = "get_date_time"
       THEN Call(At(m, "get_system_power"), "get_system_power", <<>>)
       ELSE IF at = "get_system_power"
       THEN Call(At(m, "get_log_pointer"), "get_log_pointer", <<>>)
       ELSE IF at = "get_log_pointer"
       THEN Call(At(m, "get_site_data"), "get_site_data", <<>>)
       ELSE IF at = "get_site_data"
       THEN Call(At(m, "get_all_zones_state"), "get_all_zones_state", <<>>)
       ELSE IF at = "get_all_zones_state"
       THEN Call(At(m, "get_armed_area_state"), "get_armed_area_state", <<>>)
       ELSE event_loop_inner(m)

\* except socket.timeout: continue, which only the inner loop has
event_loop_timeout(m) ==
    IF Top(m).at = "recvresponse" THEN event_loop_inner(m)
    ELSE Die(m, "socket.timeout")


(***************************************************************************)
(* The interpreter: a call enters the callee, a return or an exception     *)
(* resumes the frame on top of the stack, until the program blocks or dies *)
(***************************************************************************)
Enter(m) ==
    LET fn == m.ctl.v.fn
        a == m.ctl.v.a
    IN CASE fn = "sendcommand" -> sendcommand(m, a)
         [] fn = "recvresponse" -> recvresponse(m)
         [] fn = "login" -> login(m)
         [] fn = "set_event_messages" -> set_event_messages(m)
         [] fn = "get_number_zones" -> get_number_zones(m)
         [] fn = "get_panel_identification" -> get_panel_identification(m)
         [] fn = "get_date_time" -> get_date_time(m)
         [] fn = "get_system_power" -> get_system_power(m)
         [] fn = "get_log_pointer" -> get_log_pointer(m)
         [] fn = "get_site_data" -> get_site_data(m)
         [] fn = "get_all_areas" -> get_all_areas(m)
         [] fn = "get_all_zones" -> get_all_zones(m)
         [] fn = "get_all_users" -> get_all_users(m)
         [] fn = "get_area_details" -> get_area_details(m, a)
         [] fn = "get_zone_details" -> get_zone_details(m, a)
         [] fn = "get_user" -> get_user(m, a)
         [] fn = "get_all_zones_state" -> get_all_zones_state(m)
         [] fn = "get_zone_state" -> get_zone_state(m, a)
         [] fn = "get_changed_zones_state" -> get_changed_zones_state(m)
         [] fn = "get_zone_changes" -> get_zone_changes(m)
         [] fn = "get_armed_area_state" -> get_armed_area_state(m)
         [] fn = "get_area_flags" -> get_area_flags(m, a)
         [] fn = "arm_disarm_reset_area" -> arm_disarm_reset_area(m, a)

Resume(m) ==
    LET fn == Top(m).fn
        v == m.ctl.v
    IN CASE fn = "event_loop" -> event_loop_ret(m, v)
         [] fn = "sendcommand" -> sendcommand_ret(m, v)
         [] fn = "recvresponse" -> recvresponse_ret(m, v)
         [] fn = "login" -> login_ret(m, v)
         [] fn = "set_event_messages" -> set_event_messages_ret(m, v)
         [] fn = "get_number_zones" -> get_number_zones_ret(m, v)
         [] fn = "get_panel_identification" -> get_panel_identification_ret(m, v)
         [] fn = "get_date_time" -> get_date_time_ret(m, v)
         [] fn = "get_system_power" -> get_system_power_ret(m, v)
         [] fn = "get_log_pointer" -> get_log_pointer_ret(m, v)
         [] fn = "get_site_data" -> get_site_data_ret(m, v)
         [] fn = "get_all_areas" -> get_all_areas_ret(m, v)
         [] fn = "get_all_zones" -> get_all_zones_ret(m, v)
         [] fn = "get_all_users" -> get_all_users_ret(m, v)
         [] fn = "get_area_details" -> get_area_details_ret(m, v)
         [] fn = "get_zone_details" -> get_zone_details_ret(m, v)
         [] fn = "get_user" -> get_user_ret(m, v)
         [] fn = "get_all_zones_state" -> get_all_zones_state_ret(m, v)
         [] fn = "get_zone_state" -> get_zone_state_ret(m, v)
         [] fn = "get_changed_zones_state" -> get_changed_zones_state_ret(m, v)
         [] fn = "get_zone_changes" -> get_zone_changes_ret(m, v)
         [] fn = "get_armed_area_state" -> get_armed_area_state_ret(m, v)
         [] fn = "get_area_flags" -> get_area_flags_ret(m, v)
         [] fn = "arm_disarm_reset_area" -> arm_disarm_reset_area_ret(m, v)

\* socket.timeout travels up to the nearest except clause
Unwind(m) ==
    LET fn == Top(m).fn
    IN IF fn = "sendcommand" THEN sendcommand_timeout(m)
       ELSE IF fn = "event_loop" THEN event_loop_timeout(m)
       ELSE RaiseTimeout(m)

\* run from one blocking call to the next
RECURSIVE Run(_)
Run(m) ==
    IF m.ctl.k \in {"block", "dead"} THEN m
    ELSE IF Len(m.stk) > MaxStack THEN Die(m, "RecursionError")
    ELSE IF m.ctl.k = "call" THEN Run(Enter(m))
    ELSE IF m.ctl.k = "ret" THEN Run(Resume(m))
    ELSE Run(Unwind(m))


(***************************************************************************)
(* The environment: the panel, the network and the consumer thread.        *)
(* An environment E names the inputs a specification draws from:           *)
(*   E.connects, E.took   outcomes and durations of socket connect         *)
(*   E.delays             seconds a recv blocks before data arrives        *)
(*   E.faults, E.lossy    the ways the wire misbehaves while one of the    *)
(*                        commands E.lossy is outstanding                  *)
(*   E.idle               the same while no command is outstanding         *)
(*   E.acks               payloads answering LOGIN and arm/disarm/reset    *)
(*   E.zonecfg            (type, area bitmap) pairs of a configured zone   *)
(*   E.users              the user records the panel holds                 *)
(*   E.zonestates, E.changes, E.flags   bytes of the state queries         *)
(*   E.msgs, E.mseqs      payloads and sequence bytes of 'M' frames        *)
(*   E.maxcmds            the command frames issued in a run               *)
(*   E.maxclock           the seconds a run lasts, MaxClock if absent      *)
(*   E.panelids           identifications of the panel, PanelId if absent  *)
(*   E.usedzones, E.runs  configured zones and changed-zone runs of a      *)
(*                        large panel                                      *)
(*   E.quiet              if present, 'M' frames arrive only while no      *)
(*                        command is outstanding                           *)
(***************************************************************************)
\* "Premier12 12 X V4.00" padded with spaces to 32 bytes
PanelId ==
    <<80, 114, 101, 109, 105, 101, 114, 49, 50, 32, 49, 50, 32, 88, 32, 86,
      52, 46, 48, 48>> \o Fill(32, 12)

\* str(n) in ASCII, for n below 1000
DecimalDigits(n) ==
    IF n < 10 THEN <<48 + n>>
    ELSE IF n < 100 THEN <<48 + (n \div 10), 48 + (n % 10)>>
    ELSE <<48 + (n \div 100), 48 + ((n \div 10) % 10), 48 + (n % 10)>>

\* "Premier <n> X V<major>.00" padded with spaces to 32 bytes: the
\* identification of a panel of n zones with firmware <major>.00
PanelIdentification(n, major) ==
    LET text == <<80, 114, 101, 109, 105, 101, 114, 32>> \o DecimalDigits(n)
                \o <<32, 88, 32, 86, 48 + major, 46, 48, 48>>
    IN text \o Fill(32, PANELID_LEN - Len(text))

\* the identifications the panel may answer: E.panelids where the
\* environment names them, the 12-zone panel otherwise
PanelIds(E) == IF "panelids" \in DOMAIN E THEN E.panelids ELSE {PanelId}

\* 2026-11-04 12:00:00 as day, month, year, hour, minute, second
PanelDateTime == <<4, 11, 26, 12, 0, 0>>

PanelPower == <<100, 102, 101, 3, 1>>

\* user record: name "A", passcode 1234, and the rest; or an empty slot
PanelUser(valid) ==
    IF valid
    THEN <<LETTER_A>> \o Fill(0, 7) \o <<18, 52, 255>> \o Fill(0, 6)
         \o <<255, 255, 255, 255>> \o <<0, 0>>
    ELSE Fill(0, 8) \o <<255, 255, 255>> \o Fill(0, 6)
         \o <<255, 255, 255, 255>> \o <<0, 0>>

\* the zones beyond MaxCfgZone the panel has configured, in area 1
UsedZones(E) == IF "usedzones" \in DOMAIN E THEN E.usedzones ELSE {}

\* a zone bitmap of size bytes whose set bits are the zones of the given
\* runs, each a pair of the first zone and the number of zones
RunBitmap(runs, size) ==
    [i \in 1..size |->
        LET bits == {b \in 0..7 : \E run \in runs :
                        /\ 8 * (i - 1) + b + 1 >= run[1]
                        /\ 8 * (i - 1) + b + 1 < run[1] + run[2]}
        IN (IF 0 \in bits THEN 1 ELSE 0) + (IF 1 \in bits THEN 2 ELSE 0)
           + (IF 2 \in bits THEN 4 ELSE 0) + (IF 3 \in bits THEN 8 ELSE 0)
           + (IF 4 \in bits THEN 16 ELSE 0) + (IF 5 \in bits THEN 32 ELSE 0)
           + (IF 6 \in bits THEN 64 ELSE 0) + (IF 7 \in bits THEN 128 ELSE 0)]

\* the changed-zones bitmaps the panel may answer: a byte of E.changes
\* followed by clear bytes, or the runs of an element of E.runs
ChangedBitmaps(E, size) ==
    {<<x>> \o Fill(0, size - 1) : x \in E.changes}
    \cup (IF "runs" \in DOMAIN E THEN {RunBitmap(r, size) : r \in E.runs} ELSE {})

\* the payloads a healthy panel of the given shape may answer the command
\* frame lc with
Replies(lc, E, shape) ==
    LET op == lc[5]
        abs == shape.areaBitmapSize
        zone == FromBytesLittle(SubSeq(lc, 6, Len(lc) - 1))
    IN CASE op = CMD_LOGIN -> E.acks
         [] op = CMD_SETEVENTMESSAGES -> {<<CMD_RESPONSE_ACK>>}
         [] op = CMD_GETPANELIDENTIFICATION -> PanelIds(E)
         [] op = CMD_GETDATETIME -> {PanelDateTime}
         [] op = CMD_GETSYSTEMPOWER -> {PanelPower}
         [] op = CMD_GETLOGPOINTER -> {<<0, 0>>}
         [] op = CMD_GETAREADETAILS ->
                {<<lc[6]>> \o <<LETTER_A>> \o Fill(0, 15) \o Fill(0, 8)}
         [] op = CMD_GETZONEDETAILS ->
                IF zone <= MaxCfgZone
                THEN {<<c[1], c[2]>> \o Fill(0, abs - 1) \o Fill(32, 32) :
                         c \in E.zonecfg}
                ELSE IF zone \in UsedZones(E)
                THEN {<<1, 1>> \o Fill(0, abs - 1) \o Fill(32, 32)}
                ELSE {<<ZONETYPE_UNUSED>> \o Fill(0, abs) \o Fill(32, 32)}
         [] op = CMD_GETUSER -> {PanelUser(u) : u \in E.users}
         [] op = CMD_GETZONESTATE -> {Fill(x, lc[7]) : x \in E.zonestates}
         [] op = CMD_GETZONECHANGES -> ChangedBitmaps(E, shape.zoneBitmapSize)
         [] op = CMD_GETAREAFLAGS ->
                {<<x>> \o Fill(0, abs * lc[7] - 1) : x \in E.flags}
         [] op \in {CMD_ARMAREAS, CMD_DISARMAREAS, CMD_RESETAREAS} -> E.acks
         [] OTHER -> {}

\* a frame whose CRC byte is wrong
Corrupt(frame) == [frame EXCEPT ![Len(frame)] = (@ + 1) % 256]

\* the faults of the wire in the state m: E.idle while no command is
\* outstanding, E.faults while one of the commands E.lossy is
Faults(m, E) ==
    IF IsNone(m.last_command) THEN E.idle
    ELSE IF Val(m.last_command)[5] \in E.lossy THEN E.faults
    ELSE {}

OnFault(m, E, fault, chunks) == IF fault \in Faults(m, E) THEN chunks ELSE {}

\* the chunks of bytes a recv may return in the state m
Chunks(m, E) ==
    LET lc == Val(m.last_command)
        seq == lc[4]
        bodies == IF IsNone(m.last_command) THEN {}
                  ELSE {<<lc[5]>> \o r : r \in Replies(lc, E, m.panel)}
        one == IF bodies = {} THEN {} ELSE {CHOOSE b \in bodies : TRUE}
    IN {EncodeFrame(HEADER_TYPE_RESPONSE, seq, b) : b \in bodies}
       \cup (IF "quiet" \in DOMAIN E /\ ~IsNone(m.last_command) THEN {}
             ELSE {EncodeFrame(HEADER_TYPE_MESSAGE, q, p) :
                      q \in E.mseqs, p \in E.msgs})
       \cup OnFault(m, E, "badcrc",
               {Corrupt(EncodeFrame(HEADER_TYPE_RESPONSE, seq, b)) : b \in one})
       \cup OnFault(m, E, "wrongseq",
               {EncodeFrame(HEADER_TYPE_RESPONSE, (seq + 1) % 256, b) : b \in one})
       \cup OnFault(m, E, "wrongop",
               {EncodeFrame(HEADER_TYPE_RESPONSE, seq, <<CMD_GETLOGPOINTER, 0, 0>>) :
                  b \in {x \in one : x[1] # CMD_GETLOGPOINTER}})
       \cup OnFault(m, E, "loginnak",
               {EncodeFrame(HEADER_TYPE_RESPONSE, seq, <<CMD_LOGIN, CMD_RESPONSE_NAK>>) :
                  b \in {x \in one : x[1] # CMD_LOGIN}})
       \cup OnFault(m, E, "drop", {<<PLUS, PLUS, PLUS>>})
       \cup OnFault(m, E, "eof", {<<>>})
       \cup OnFault(m, E, "hangup", {<<PLUS, PLUS, PLUS, LETTER_A>>})
       \cup OnFault(m, E, "short", {<<HEADER_START, HEADER_TYPE_RESPONSE>>})
       \cup OnFault(m, E, "badstart", {<<0, HEADER_TYPE_RESPONSE, 5, 0, 0>>})
       \cup OnFault(m, E, "cmdframe", {EncodeFrame(HEADER_TYPE_COMMAND, 0, <<CMD_LOGIN>>)})

\* what a blocking recv may do: return a chunk, time out, or raise
RecvEvents(m, E) ==
    {[e |-> "data", chunk |-> c, d |-> d] : c \in Chunks(m, E), d \in E.delays}
    \cup OnFault(m, E, "timeout", {[e |-> "timeout", chunk |-> <<>>, d |-> CMD_TIMEOUT]})
    \cup OnFault(m, E, "error", {[e |-> "error", chunk |-> <<>>, d |-> 0]})


(***************************************************************************)
(* Initial state and actions                                               *)
(***************************************************************************)
NoPanel ==
    [numberOfZones |-> NoInt, numberOfUsers |-> NoInt, numberOfAreas |-> NoInt,
     areaBitmapSize |-> NoInt, zoneBitmapSize |-> NoInt, zoneNumSize |-> NoInt]

\* TexecomConnect.__init__, then event_loop up to its first connect
Init ==
    /\ s = "unconnected"
    /\ nextseq = 0
    /\ last_sequence = -1
    /\ last_command = None
    /\ last_command_time = 0
    /\ time_last_heartbeat = 0
    /\ last_received_seq = -1
    /\ lastIdleCommand = 0
    /\ arm_disarm_reset_queue = <<>>
    /\ panel = NoPanel
    /\ highestUsedZone = NoInt
    /\ zones = <<>>
    /\ areas = <<>>
    /\ users = {}
    /\ lastConnectedAt = Epoch
    /\ notifiedConnectionLoss = FALSE
    /\ connected = FALSE
    /\ stk = <<[fn |-> "event_loop", at |-> "connect"]>>
    /\ ctl = [k |-> "block", v |-> "connect"]
    /\ clock = Epoch
    /\ rx = [e |-> "init"]
    /\ out = <<>>
    /\ issued = <<>>
    /\ during = None
    /\ ncmds = 0
    /\ lastProbe = None
    /\ lastHook = None

\* the seconds a run lasts: E.maxclock where the environment names it
ClockBound(E) == IF "maxclock" \in DOMAIN E THEN E.maxclock ELSE MaxClock

\* one step of the main thread ends in the state m, having consumed ev
Step(m, ev, E) ==
    /\ m.clock <= Epoch + ClockBound(E)
    /\ m.ncmds <= E.maxcmds
    /\ Apply(m)
    /\ rx' = ev

\* socket connect returns or raises, and event_loop runs on to its next block
Connect(E) ==
    /\ ctl = [k |-> "block", v |-> "connect"]
    /\ \E ok \in E.connects, took \in E.took :
         Step(Run(event_loop_connect(M, ok, took)),
              [e |-> "connect", ok |-> ok, d |-> took], E)

\* socket recv returns, times out or raises, and the program runs on
Recv(E) ==
    /\ ctl = [k |-> "block", v |-> "recv"]
    /\ \E ev \in RecvEvents(M, E) :
         LET m0 == [M EXCEPT !.clock = @ + ev.d]
         IN Step(CASE ev.e = "data" -> Run(recvresponse_data(m0, ev.chunk))
                   [] ev.e = "timeout" -> Run(RaiseTimeout(m0))
                   [] ev.e = "error" -> Die(m0, "OSError"),
                 ev, E)

\* the consumer thread appends request to the queue
Request(request) ==
    /\ ctl.k # "dead"
    /\ Len(arm_disarm_reset_queue) < MaxQueue
    /\ arm_disarm_reset_queue' = Append(arm_disarm_reset_queue, request)
    /\ rx' = [e |-> "request", req |-> request]
    /\ out' = <<>>
    /\ UNCHANGED <<s, nextseq, last_sequence, last_command, last_command_time,
                   time_last_heartbeat, last_received_seq, lastIdleCommand,
                   panel, highestUsedZone, zones, areas, users, lastConnectedAt,
                   notifiedConnectionLoss, connected, stk, ctl, clock, issued,
                   during, ncmds, lastProbe, lastHook>>

requestArmAreas(area_bitmap) ==
    Request([cmd |-> CMD_ARMAREAS, arm_type |-> <<ARMING_TYPE_FULL>>,
             area_bitmap |-> area_bitmap])

requestPartArmAreas(area_bitmap) ==
    Request([cmd |-> CMD_ARMAREAS, arm_type |-> <<ARMING_TYPE_PART1>>,
             area_bitmap |-> area_bitmap])

requestDisArmAreas(area_bitmap) ==
    Request([cmd |-> CMD_DISARMAREAS, arm_type |-> None, area_bitmap |-> area_bitmap])

requestResetAreas(area_bitmap) ==
    Request([cmd |-> CMD_RESETAREAS, arm_type |-> None, area_bitmap |-> area_bitmap])


(***************************************************************************)
(* Specification SpecSeq: a healthy panel that answers at once, drops the  *)
(* session now and then and is reconnected to, long enough for the         *)
(* sequence byte to wrap.                                                  *)
(***************************************************************************)
SeqEnv ==
    [connects |-> {TRUE}, took |-> {0}, delays |-> {0},
     faults |-> {"timeout"}, lossy |-> {CMD_GETDATETIME},
     idle |-> {"drop"}, maxcmds |-> MaxCmdsSeq,
     acks |-> {<<CMD_RESPONSE_ACK>>},
     zonecfg |-> {<<1, 1>>}, users |-> {TRUE},
     zonestates |-> {0}, changes |-> {0}, flags |-> {0},
     msgs |-> {}, mseqs |-> {}]

ConnectSeq == Connect(SeqEnv)
RecvSeq == Recv(SeqEnv)

NextSeq == ConnectSeq \/ RecvSeq

SpecSeq == Init /\ [][NextSeq]_vars


\* the entries of out that put a newly issued command frame on the wire
NewSends == {i \in 1..Len(out) : out[i].e = "send" /\ out[i].new}

\* C1: the sequence byte of every newly issued command frame is 0 for the
\* first command ever issued and otherwise the sequence byte of the command
\* issued before it plus 1 modulo 256, so the command after 255 carries 0;
\* timeouts, failed commands and reconnects in between change nothing.
C1_SequenceConsecutive ==
    \A i \in NewSends :
        out[i].data[4] = IF out[i].prev = <<>> THEN 0
                         ELSE (out[i].prev[4] + 1) % 256

\* a command issued after the one with sequence byte 255, in a run that has
\* seen a retransmission-exhausted command and a reconnect
C1_Witness ==
    /\ \E i \in NewSends : out[i].prev # <<>> /\ out[i].prev[4] = 255
    /\ ncmds > 256
    /\ clock > Epoch


(***************************************************************************)
(* Specification SpecRetry: after a clean topology load the panel loses    *)
(* or garbles responses to the queued requests and the idle probes, time   *)
(* passes in receive timeouts, and the consumer thread asks for disarms.   *)
(***************************************************************************)
RetryEnv ==
    [connects |-> {TRUE}, took |-> {0}, delays |-> {0},
     faults |-> {"timeout", "badcrc", "wrongseq"},
     lossy |-> {CMD_DISARMAREAS, CMD_GETZONECHANGES, CMD_GETAREAFLAGS},
     idle |-> {"timeout"}, maxcmds |-> MaxCmds,
     acks |-> {<<CMD_RESPONSE_ACK>>},
     zonecfg |-> {<<1, 1>>}, users |-> {TRUE},
     zonestates |-> {0}, changes |-> {0}, flags |-> {0},
     msgs |-> {}, mseqs |-> {}]

ConnectRetry == Connect(RetryEnv)
RecvRetry == Recv(RetryEnv)
RequestRetry == requestDisArmAreas(<<1, 0, 0, 0, 0, 0, 0>>)

NextRetry == ConnectRetry \/ RecvRetry \/ RequestRetry

SpecRetry == Init /\ [][NextRetry]_vars


\* C2: a new command frame is only ever sent when no command is outstanding,
\* and neither the idle-probe branch nor the queue drain of recvresponse is
\* taken while a command is outstanding.
C2_OneOutstanding ==
    \A i \in 1..Len(out) :
        /\ (out[i].e = "send" /\ out[i].new) => ~out[i].over
        /\ out[i].e \in {"idle", "dequeue"} => IsNone(out[i].lc)

\* a receive timed out and the frame was resent while a request was waiting
\* in the queue, and the request stayed there
C2_Witness ==
    /\ rx.e = "timeout"
    /\ ~IsNone(last_command)
    /\ Len(arm_disarm_reset_queue) > 0
    /\ Len(out) = 1
    /\ out[1].e = "send"
    /\ ~out[1].new

\* the frame of sendcommand that a blocked recvresponse was called from
Outstanding == stk[Len(stk) - 1]

\* the step consumed a receive timeout while a command was outstanding
TimeoutWhileOutstanding == rx'.e = "timeout" /\ ~IsNone(last_command)

\* C3: when the receive times out while a command is outstanding, the bytes
\* sent next are exactly the frame first issued (same sequence byte); the
\* first two timeouts leave the command outstanding, and the third is
\* followed by sendcommand returning None, four transmissions having been
\* made with the retry budget of 3.
C3_Retransmit ==
    [][TimeoutWhileOutstanding =>
         /\ Len(out') >= 1
         /\ out'[1].e = "send"
         /\ ~out'[1].new
         /\ out'[1].data = Val(last_command)
         /\ out'[1].data = issued
         /\ IF Outstanding.sends < CMD_RETRIES
            THEN /\ Len(out') = 1
                 /\ last_command' = last_command
                 /\ ctl' = [k |-> "block", v |-> "recv"]
            ELSE /\ Len(out') >= 2
                 /\ out'[2].e = "return"
                 /\ out'[2].cmd = Outstanding.cmd
                 /\ IsNone(out'[2].v)
                 /\ out'[2].sends = CMD_RETRIES + 1]_vars

\* sendcommand has given up on a command after its fourth transmission
C3_Witness ==
    /\ rx.e = "timeout"
    /\ Len(out) >= 2
    /\ out[1].e = "send"
    /\ ~out[1].new
    /\ out[2].e = "return"
    /\ IsNone(out[2].v)
    /\ out[2].sends = CMD_RETRIES + 1

\* chunk is one whole response frame except that its CRC byte is wrong
BadCrcResponse(chunk) ==
    /\ Len(chunk) > LENGTH_HEADER
    /\ chunk[1] = HEADER_START
    /\ chunk[2] = HEADER_TYPE_RESPONSE
    /\ chunk[3] = Len(chunk)
    /\ chunk[Len(chunk)] # crc8_func(SubSeq(chunk, 1, Len(chunk) - 1))

\* C4: a response with a wrong CRC byte that arrives while a command is
\* outstanding is discarded: the command stays outstanding with its retry
\* budget, and sendcommand does not return in that step.
C4_BadCrcKeepsOutstanding ==
    [][(rx'.e = "data" /\ BadCrcResponse(rx'.chunk) /\ ~IsNone(last_command)) =>
         /\ last_command' = last_command
         /\ \A i \in 1..Len(out') : out'[i].e # "return"]_vars


(***************************************************************************)
(* SpecEvents: a healthy panel that sends area and zone events at any      *)
(* moment, between a command and its response included                     *)
(***************************************************************************)
EventsEnv == [connects |-> {TRUE}, took |-> {0}, delays |-> {0},
              faults |-> {}, lossy |-> {}, idle |-> {}, maxcmds |-> MaxCmds,
              acks |-> {<<CMD_RESPONSE_ACK>>}, zonecfg |-> {<<1, 1>>},
              users |-> {TRUE}, zonestates |-> {0}, changes |-> {0},
              flags |-> {0},
              msgs |-> {<<MSG_AREAEVENT, 1, AREA_STATE_ARMED>>,
                        <<MSG_AREAEVENT, 1, AREA_STATE_PARTARMED>>,
                        <<MSG_ZONEEVENT, 1, 1>>},
              mseqs |-> {0, 1}]

ConnectEvents == Connect(EventsEnv)

RecvEventsOrReplies == Recv(EventsEnv)

NextEvents == ConnectEvents \/ RecvEventsOrReplies

SpecEvents == Init /\ [][NextEvents]_vars

\* chunk is one whole frame of the given type with the right CRC byte
GoodFrame(chunk, type) ==
    /\ Len(chunk) > LENGTH_HEADER + 1
    /\ chunk[1] = HEADER_START
    /\ chunk[2] = type
    /\ chunk[3] = Len(chunk)
    /\ chunk[Len(chunk)] = crc8_func(SubSeq(chunk, 1, Len(chunk) - 1))

\* the payload of a frame: what lies between its header and its CRC byte
FramePayload(chunk) == SubSeq(chunk, LENGTH_HEADER + 1, Len(chunk) - 1)

\* chunk is an AREA_EVENT message frame
AreaEventFrame(chunk) ==
    /\ GoodFrame(chunk, HEADER_TYPE_MESSAGE)
    /\ Len(FramePayload(chunk)) = 3
    /\ FramePayload(chunk)[1] = MSG_AREAEVENT

\* the step dispatched the AREA_EVENT chunk and left the command outstanding
DispatchedDuringCommand(chunk) ==
    LET p == FramePayload(chunk)
    IN /\ Len(out') = 2
       /\ out'[1] = [e |-> "dispatch", payload |-> p]
       /\ out'[2] = [e |-> "cb", f |-> "on_area_event", id |-> p[2], v |-> p[3]]
       /\ p[2] \in DOMAIN areas'
       /\ areas'[p[2]].state = p[3]
       /\ last_command' = last_command
       /\ during' = Some(p)
       /\ ctl' = [k |-> "block", v |-> "recv"]

\* the step returned the payload of the response chunk to the caller of
\* sendcommand, after whatever message was dispatched since the command was sent
ResponseReturned(chunk) ==
    /\ Len(out') >= 1
    /\ out'[1].e = "return"
    /\ out'[1].v = Some(Tail(FramePayload(chunk)))
    /\ out'[1].during = during

\* the response chunk answers the outstanding command
MatchingResponse(chunk) ==
    /\ GoodFrame(chunk, HEADER_TYPE_RESPONSE)
    /\ ~IsNone(last_command)
    /\ chunk[4] = Val(last_command)[4]
    /\ chunk[5] = Val(last_command)[5]

\* C5 as stated: every AREA_EVENT frame that arrives while a command is
\* outstanding is dispatched, the command staying outstanding.
C5_EveryAreaEventDispatched ==
    [][(rx'.e = "data" /\ AreaEventFrame(rx'.chunk) /\ ~IsNone(last_command)) =>
         DispatchedDuringCommand(rx'.chunk)]_vars

\* C5, amended: an AREA_EVENT frame that arrives while a command is
\* outstanding and whose sequence byte is not the one of the message received
\* last is dispatched at once (area.state updated, on_area_event invoked)
\* and the command stays outstanding; the matching response that arrives
\* later is returned to the caller of sendcommand.
C5_AreaEventThenResponse ==
    [][/\ (/\ rx'.e = "data"
           /\ AreaEventFrame(rx'.chunk)
           /\ ~IsNone(last_command)
           /\ rx'.chunk[4] # last_received_seq)
          => DispatchedDuringCommand(rx'.chunk)
       /\ (rx'.e = "data" /\ MatchingResponse(rx'.chunk))
          => ResponseReturned(rx'.chunk)]_vars

\* a response has been returned for a command during which an AREA_EVENT
\* was dispatched
C5_Witness ==
    /\ rx.e = "data"
    /\ Len(out) >= 1
    /\ out[1].e = "return"
    /\ ~IsNone(out[1].v)
    /\ ~IsNone(out[1].during)
    /\ Val(out[1].during)[1] = MSG_AREAEVENT
    /\ 1 \in DOMAIN areas
    /\ areas[1].state = Val(out[1].during)[3]

\* the places of the step's log where a payload was handed to message_event
Dispatches(log) == {i \in 1..Len(log) : log[i].e = "dispatch"}

\* C6: a payload is handed to the dispatcher only in the step that received
\* it in a message frame with a valid CRC, before anything else is done with
\* the wire, and at most once; a valid message frame whose sequence byte
\* is not the one of the message before it is handed over in that step.  So
\* the dispatcher sees the messages in the order of the wire.
C6_DispatchInWireOrder ==
    [][/\ Cardinality(Dispatches(out')) <= 1
       /\ \A i \in Dispatches(out') :
            /\ i = 1
            /\ rx'.e = "data"
            /\ GoodFrame(rx'.chunk, HEADER_TYPE_MESSAGE)
            /\ out'[i].payload = FramePayload(rx'.chunk)
       /\ (/\ rx'.e = "data"
           /\ GoodFrame(rx'.chunk, HEADER_TYPE_MESSAGE)
           /\ rx'.chunk[4] # last_received_seq)
          => Dispatches(out') = {1}]_vars

\* a zone event has been dispatched after an area event was
C6_Witness ==
    /\ rx.e = "data"
    /\ GoodFrame(rx.chunk, HEADER_TYPE_MESSAGE)
    /\ Dispatches(out) = {1}
    /\ out[1].payload = <<MSG_ZONEEVENT, 1, 1>>
    /\ last_received_seq = 1
    /\ 1 \in DOMAIN areas
    /\ areas[1].state = AREA_STATE_PARTARMED


(***************************************************************************)
(* SpecQueue: the MQTT thread enqueues arm, part-arm, disarm and reset     *)
(* requests at any moment; the panel answers every command and sends zone  *)
(* events                                                                  *)
(***************************************************************************)
QueueEnv == [connects |-> {TRUE}, took |-> {0}, delays |-> {0},
             faults |-> {}, lossy |-> {}, idle |-> {}, maxcmds |-> MaxCmds,
             acks |-> {<<CMD_RESPONSE_ACK>>}, zonecfg |-> {<<1, 1>>},
             users |-> {TRUE}, zonestates |-> {0}, changes |-> {0},
             flags |-> {0}, msgs |-> {<<MSG_ZONEEVENT, 1, 1>>}, mseqs |-> {0}]

\* the area map "01000000000000" of alarm-monitor.py: area 1
GroundFloor == <<1, 0, 0, 0, 0, 0, 0>>

ConnectQueue == Connect(QueueEnv)

RecvQueue == Recv(QueueEnv)

ArmQueue == requestArmAreas(GroundFloor)

PartArmQueue == requestPartArmAreas(GroundFloor)

DisArmQueue == requestDisArmAreas(GroundFloor)

ResetQueue == requestResetAreas(GroundFloor)

NextQueue ==
    ConnectQueue \/ RecvQueue \/ ArmQueue \/ PartArmQueue \/ DisArmQueue \/ ResetQueue

SpecQueue == Init /\ [][NextQueue]_vars

\* the places of the step's log where a request was taken from the queue
Dequeues(log) == {i \in 1..Len(log) : log[i].e = "dequeue"}

\* the body arm_disarm_reset_area sends for request on a panel whose area
\* bitmaps are one byte long
RequestBody(request) ==
    <<request.cmd>> \o request.arm_type \o SubSeq(request.area_bitmap, 1, 1)

\* C7: a request call appends to the queue; a step takes at most one request
\* from the queue, the one at its head, only when no command is outstanding,
\* and sends it as the next new command frame; the queue changes in no other
\* way; and wherever sendcommand returns, last_command is None.
C7_QueueFifo ==
    [][/\ rx'.e = "request" =>
            arm_disarm_reset_queue' = Append(arm_disarm_reset_queue, rx'.req)
       /\ Cardinality(Dequeues(out')) <= 1
       /\ \A i \in Dequeues(out') :
            /\ IsNone(out'[i].lc)
            /\ arm_disarm_reset_queue # <<>>
            /\ out'[i].req = Head(arm_disarm_reset_queue)
            /\ arm_disarm_reset_queue' = Tail(arm_disarm_reset_queue)
            /\ i < Len(out')
            /\ out'[i + 1].e = "send"
            /\ out'[i + 1].new
            /\ FramePayload(out'[i + 1].data) = RequestBody(out'[i].req)
       /\ (rx'.e # "request" /\ Dequeues(out') = {}) =>
            arm_disarm_reset_queue' = arm_disarm_reset_queue
       /\ \A i \in 1..Len(out') : out'[i].e = "return" => IsNone(out'[i].lc)]_vars

\* the older of two different queued requests has been sent to the panel and
\* the younger one is still queued
C7_Witness ==
    /\ Dequeues(out) # {}
    /\ Len(arm_disarm_reset_queue) = 1
    /\ \E i \in Dequeues(out) : out[i].req # arm_disarm_reset_queue[1]
    /\ ~IsNone(last_command)
    /\ Val(last_command)[5] \in {CMD_ARMAREAS, CMD_DISARMAREAS, CMD_RESETAREAS}


(***************************************************************************)
(* SpecArea: the panel reports area 1 in any of its six states at any      *)
(* moment, and answers the armed-flag poll with any flags for areas 1, 2   *)
(***************************************************************************)
AreaEnv == [connects |-> {TRUE}, took |-> {0}, delays |-> {0},
            faults |-> {}, lossy |-> {}, idle |-> {}, maxcmds |-> MaxCmds,
            acks |-> {<<CMD_RESPONSE_ACK>>}, zonecfg |-> {<<1, 1>>},
            users |-> {TRUE}, zonestates |-> {0}, changes |-> {0},
            flags |-> {0, 1, 2},
            msgs |-> {<<MSG_AREAEVENT, 1, st>> : st \in 0..AREA_STATE_INALARM},
            mseqs |-> {0, 1}]

ConnectArea == Connect(AreaEnv)

RecvArea == Recv(AreaEnv)

NextArea == ConnectArea \/ RecvArea

SpecArea == Init /\ [][NextArea]_vars

\* the step applied the answer of an armed-flag poll to the areas
PollApplied(log) ==
    \E i \in 1..Len(log) :
        /\ log[i].e = "return"
        /\ log[i].cmd = CMD_GETAREAFLAGS
        /\ ~IsNone(log[i].v)

\* the step invoked on_area_event for area a
AreaCallback(log, a) ==
    \E i \in 1..Len(log) :
        log[i].e = "cb" /\ log[i].f = "on_area_event" /\ log[i].id = a

\* C8: a step that applies the answer of an armed-flag poll leaves every
\* area whose state is part-armed part-armed, whatever the flags, and invokes
\* no on_area_event for it.
C8_PollKeepsPartArmed ==
    [][PollApplied(out') =>
         \A a \in DOMAIN areas :
            areas[a].state = AREA_STATE_PARTARMED =>
               /\ a \in DOMAIN areas'
               /\ areas'[a].state = AREA_STATE_PARTARMED
               /\ ~AreaCallback(out', a)]_vars

\* the poll has answered that area 1 is armed while area 1 is part-armed
C8_Witness ==
    /\ PollApplied(out)
    /\ rx.e = "data"
    /\ FramePayload(rx.chunk) = <<CMD_GETAREAFLAGS, 1>>
    /\ 1 \in DOMAIN areas
    /\ areas[1].state = AREA_STATE_PARTARMED

\* a step that dispatches no message leaves every known area state alone
KnownAreaStatesKept ==
    Dispatches(out') = {} =>
       \A a \in DOMAIN areas :
          areas[a].state # NoInt =>
             a \in DOMAIN areas' /\ areas'[a].state = areas[a].state

\* the step stored the state byte of the AREA_EVENT chunk in its area
AreaEventStored(chunk) ==
    LET p == FramePayload(chunk)
    IN p[2] \in DOMAIN areas' /\ areas'[p[2]].state = p[3]

\* C9 as stated: every AREA_EVENT frame received sets the state of its area
\* to its state byte, and nothing else changes a state an event has set.
C9_EveryAreaEventStored ==
    [][/\ (rx'.e = "data" /\ AreaEventFrame(rx'.chunk)) => AreaEventStored(rx'.chunk)
       /\ KnownAreaStatesKept]_vars

\* C9, amended: every AREA_EVENT frame whose sequence byte is not the one of
\* the message received last sets the state of its area to its state byte,
\* and a step that dispatches no message (an armed-flag poll among them)
\* changes no state that is known; so the stored state of an area is the
\* state byte of the most recent AREA_EVENT for it that was not ignored as a
\* duplicate.
C9_LatestAreaEventStored ==
    [][/\ (/\ rx'.e = "data"
           /\ AreaEventFrame(rx'.chunk)
           /\ rx'.chunk[4] # last_received_seq)
          => AreaEventStored(rx'.chunk)
       /\ Dispatches(out') # {} =>
             /\ rx'.e = "data"
             /\ AreaEventFrame(rx'.chunk)
             /\ rx'.chunk[4] # last_received_seq
             /\ \A a \in DOMAIN areas :
                  a # FramePayload(rx'.chunk)[2] =>
                     a \in DOMAIN areas' /\ areas'[a].state = areas[a].state
       /\ KnownAreaStatesKept]_vars

\* an armed-flag poll that reports area 1 armed has been applied after an
\* AREA_EVENT put area 1 in alarm, and area 1 is still in alarm
C9_Witness ==
    /\ PollApplied(out)
    /\ rx.e = "data"
    /\ FramePayload(rx.chunk) = <<CMD_GETAREAFLAGS, 1>>
    /\ 1 \in DOMAIN areas
    /\ areas[1].state = AREA_STATE_INALARM
    /\ 2 \in DOMAIN areas
    /\ areas[2].state = AREA_STATE_DISARMED


(***************************************************************************)
(* SpecTopology: the panel drops the connection when idle, and the zones   *)
(* may be configured differently each time the topology is loaded          *)
(***************************************************************************)
TopologyEnv == [connects |-> {TRUE}, took |-> {0}, delays |-> {0},
                faults |-> {}, lossy |-> {}, idle |-> {"drop"},
                maxcmds |-> MaxCmdsReload,
                acks |-> {<<CMD_RESPONSE_ACK>>},
                zonecfg |-> {<<ZONETYPE_UNUSED, 1>>, <<1, 1>>, <<1, 2>>, <<1, 3>>},
                users |-> {TRUE}, zonestates |-> {0}, changes |-> {0},
                flags |-> {0}, msgs |-> {}, mseqs |-> {}]

ConnectTopology == Connect(TopologyEnv)

RecvTopology == Recv(TopologyEnv)

NextTopology == ConnectTopology \/ RecvTopology

SpecTopology == Init /\ [][NextTopology]_vars

\* C10: area a is in the area set of zone z if and only if zone z is in the
\* zone set of area a, for every zone and area of the tables, in every state.
C10_ZoneAreaMirror ==
    \A z \in DOMAIN zones : \A a \in DOMAIN areas :
        a \in zones[z].areas <=> z \in areas[a].zones

\* the topology has been loaded a second time: zone 2, of area 1 in the
\* first load, is unused in the second and still tied to area 1, while zone
\* 1 is of area 2 alone
C10_Witness ==
    /\ ctl = [k |-> "block", v |-> "recv"]
    /\ 1 \in DOMAIN zones /\ 2 \in DOMAIN zones
    /\ 1 \in DOMAIN areas /\ 2 \in DOMAIN areas
    /\ zones[2].zoneType = ZONETYPE_UNUSED
    /\ zones[2].areas = {1}
    /\ zones[1].areas = {2}
    /\ areas[1].zones = {2}
    /\ areas[2].zones = {1}

\* event_loop has finished a topology load and runs its inner loop
TopologyLoaded == stk # <<>> /\ stk[1].at = "recvresponse"

\* C11: once a topology load has completed, a zone is unused (zoneType 0)
\* if and only if no area has it in its zone set.
C11_UnusedIffInNoArea ==
    TopologyLoaded =>
       \A z \in DOMAIN zones :
          zones[z].zoneType = ZONETYPE_UNUSED
             <=> \A a \in DOMAIN areas : z \notin areas[a].zones


(***************************************************************************)
(* SpecZones: zones 1 and 2 are in use and the others are not; the panel   *)
(* answers zone-state queries with any of two states and sends zone events *)
(* for zone 1 and for zone 3                                               *)
(***************************************************************************)
ZonesEnv == [connects |-> {TRUE}, took |-> {0}, delays |-> {0},
             faults |-> {}, lossy |-> {}, idle |-> {}, maxcmds |-> MaxCmds,
             acks |-> {<<CMD_RESPONSE_ACK>>}, zonecfg |-> {<<1, 1>>},
             users |-> {TRUE}, zonestates |-> {0, 1}, changes |-> {0},
             flags |-> {0},
             msgs |-> {<<MSG_ZONEEVENT, 1, 1>>, <<MSG_ZONEEVENT, 3, 1>>},
             mseqs |-> {0, 1}]

ConnectZones == Connect(ZonesEnv)

RecvZones == Recv(ZonesEnv)

NextZones == ConnectZones \/ RecvZones

SpecZones == Init /\ [][NextZones]_vars

\* the step passed zone z to on_zone_event or to on_zone_details
ZoneCallback(log, z) ==
    \E i \in 1..Len(log) :
        /\ log[i].e = "cb"
        /\ log[i].f \in {"on_zone_event", "on_zone_details"}
        /\ log[i].id = z

\* C12: once the topology is loaded, no step passes a zone whose zoneType is
\* 0 (unused) to on_zone_event or to on_zone_details.
C12_UnusedZoneNeverReported ==
    TopologyLoaded =>
       \A z \in DOMAIN zones :
          ZoneCallback(out, z) => zones[z].zoneType # ZONETYPE_UNUSED


(***************************************************************************)
(* The panel shape: panels of every supported size, and of one size the   *)
(* tables do not hold, answer GETPANELIDENTIFICATION; the run ends after   *)
(* the first commands of the topology load.                                *)
(***************************************************************************)
SupportedZones == {12, 24, 48, 64, 88, 168, 640}

ShapeEnv ==
    [connects |-> {TRUE}, took |-> {0}, delays |-> {0},
     faults |-> {}, lossy |-> {}, idle |-> {}, maxcmds |-> MaxCmdsShape,
     acks |-> {<<CMD_RESPONSE_ACK>>}, zonecfg |-> {<<1, 1>>},
     users |-> {TRUE}, zonestates |-> {0}, changes |-> {0}, flags |-> {0},
     msgs |-> {}, mseqs |-> {},
     panelids |-> {PanelIdentification(n, major) :
                      n \in SupportedZones \cup {32}, major \in {4, 5}}]

ConnectShape == Connect(ShapeEnv)
RecvShape == Recv(ShapeEnv)
NextShape == ConnectShape \/ RecvShape
SpecShape == Init /\ [][NextShape]_vars

\* the panel shape table: users, areas, area-bitmap bytes, zone-bitmap
\* bytes and zone-number bytes of a panel of n zones
PanelShapeTable(n) ==
    CASE n = 12 -> <<8, 2, 1, 2, 1>>
      [] n = 24 -> <<25, 2, 1, 3, 1>>
      [] n = 48 -> <<50, 4, 1, 6, 1>>
      [] n = 64 -> <<50, 4, 1, 8, 1>>
      [] n = 88 -> <<100, 8, 1, 11, 1>>
      [] n = 168 -> <<200, 16, 2, 21, 1>>
      [] n = 640 -> <<1000, 64, 8, 80, 2>>

\* get_number_zones has derived the shape of the panel
ShapeDerived == panel.zoneNumSize # NoInt

PanelShape ==
    <<panel.numberOfUsers, panel.numberOfAreas, panel.areaBitmapSize,
      panel.zoneBitmapSize, panel.zoneNumSize>>

\* C13: for each supported zone count get_number_zones derives exactly the
\* users, areas, area-bitmap bytes, zone-bitmap bytes and zone-number bytes
\* of the panel shape table.
C13_ShapeIsTableRow ==
    ShapeDerived /\ panel.numberOfZones \in SupportedZones
       => PanelShape = PanelShapeTable(panel.numberOfZones)

\* the rows of the table the code does derive: every size but 12 zones
C13_LargerPanelsMatch ==
    ShapeDerived /\ panel.numberOfZones \in SupportedZones \ {12}
       => PanelShape = PanelShapeTable(panel.numberOfZones)


(***************************************************************************)
(* A 640-zone panel whose highest configured zone lies beyond the 168      *)
(* zones one GETZONESTATE query may ask for.                               *)
(***************************************************************************)
LargeEnv ==
    [connects |-> {TRUE}, took |-> {0}, delays |-> {0},
     faults |-> {}, lossy |-> {}, idle |-> {"timeout"}, maxcmds |-> MaxCmdsLarge,
     acks |-> {<<CMD_RESPONSE_ACK>>}, zonecfg |-> {<<1, 1>>},
     users |-> {TRUE}, zonestates |-> {1}, changes |-> {0}, flags |-> {0},
     msgs |-> {}, mseqs |-> {},
     panelids |-> {PanelIdentification(640, 4)},
     usedzones |-> {LastUsedZone},
     runs |-> {{<<1, 2>>}, {<<2, 200>>}, {<<3, 1>>, <<5, 170>>, <<300, 4>>},
               {<<190, 30>>}, {<<1, 640>>}, {<<201, 9>>}}]

ConnectLarge == Connect(LargeEnv)
RecvLarge == Recv(LargeEnv)
NextLarge == ConnectLarge \/ RecvLarge
SpecLarge == Init /\ [][NextLarge]_vars

\* C14: once the topology load has run get_all_zones_state, every configured
\* zone from 1 to highestUsedZone has had its state obtained from the panel.
C14_EveryZoneStateObtained ==
    TopologyLoaded =>
       \A z \in 1..highestUsedZone :
          zones[z].zoneType # ZONETYPE_UNUSED => zones[z].state # NoInt

\* get_changed_zones_state is in the call stack stack
InPoll(stack) == Len(stack) >= 3 /\ stack[3].fn = "get_changed_zones_state"

\* a GETZONESTATE query of get_changed_zones_state is under way
Querying(stack) == InPoll(stack) /\ stack[3].at = "state"

\* the zones whose bit is set in a changed-zones bitmap
ChangedZones(bitmap) == {p + 1 : p \in IntBits(bitmap)}

QueriedZones(q) == q.startZone..(q.startZone + q.numZones - 1)

\* the step issues the query q of a poll whose queries so far end below the
\* zone from: q is a whole run of set bits, or 168 zones of one, and no set
\* bit lies between from and q
QueryIsNextRun(q, from, changed) ==
    /\ q.numZones \in 1..MAX_ZONES_PER_QUERY
    /\ q.startZone >= from
    /\ \A z \in from..(q.startZone - 1) : z \notin changed
    /\ QueriedZones(q) \subseteq changed
    /\ q.numZones = MAX_ZONES_PER_QUERY \/ q.startZone + q.numZones \notin changed

\* C15: get_changed_zones_state issues one GETZONESTATE query per contiguous
\* run of set bits of the changed-zones bitmap, a run of more than 168 zones
\* in blocks of 168 and a rest; every zone up to highestUsedZone whose bit is
\* set is in exactly one query, and no zone whose bit is clear is queried.
C15_OneQueryPerRun ==
    [][/\ Querying(stk') /\ ~Querying(stk)
          => QueryIsNextRun(stk'[4], 1, ChangedZones(stk'[3].changedZonesBitmap))
       /\ Querying(stk') /\ Querying(stk) /\ stk'[3] # stk[3]
          => /\ stk'[3].changedZonesBitmap = stk[3].changedZonesBitmap
             /\ QueryIsNextRun(stk'[4], stk[4].startZone + stk[4].numZones,
                               ChangedZones(stk[3].changedZonesBitmap))
       /\ Querying(stk) /\ ~InPoll(stk') /\ s' = "connected"
          => \A z \in (stk[4].startZone + stk[4].numZones)..highestUsedZone :
                z \notin ChangedZones(stk[3].changedZonesBitmap)
       /\ InPoll(stk) /\ ~Querying(stk) /\ ~InPoll(stk') /\ s' = "connected"
          => \A z \in 1..highestUsedZone :
                z \notin ChangedZones(Tail(FramePayload(rx'.chunk)))
      ]_vars

\* the second query of a run of 200 changed zones: 168 zones are asked for
\* first, and now the other 32
C15_Witness ==
    /\ Querying(stk)
    /\ ChangedZones(stk[3].changedZonesBitmap) = 2..201
    /\ stk[4].startZone = 170 /\ stk[4].numZones = 32


(***************************************************************************)
(* Idle sessions: nothing is asked of the core for minutes; the panel may   *)
(* drop the connection instead of answering a zone-changes poll.           *)
(***************************************************************************)
IdleEnv ==
    [connects |-> {TRUE}, took |-> {0}, delays |-> {1},
     faults |-> {"drop"}, lossy |-> {CMD_GETZONECHANGES},
     idle |-> {"timeout"}, maxcmds |-> MaxCmdsIdle, maxclock |-> MaxClockIdle,
     acks |-> {<<CMD_RESPONSE_ACK>>}, zonecfg |-> {<<1, 1>>},
     users |-> {TRUE}, zonestates |-> {0}, changes |-> {0, 1}, flags |-> {0},
     msgs |-> {}, mseqs |-> {}]

ConnectIdle == Connect(IdleEnv)
RecvIdle == Recv(IdleEnv)
NextIdle == ConnectIdle \/ RecvIdle
SpecIdle == Init /\ [][NextIdle]_vars

\* the entries of a step's log at which recvresponse starts an idle probe
IdleProbes(log) == {i \in 1..Len(log) : log[i].e = "idle"}

\* the first command frame of the probe: GETZONECHANGES, or GETAREAFLAGS
\* for the one row 21
ProbeFrame(probe, data) ==
    IF probe = "get_changed_zones_state"
    THEN data[5] = CMD_GETZONECHANGES
    ELSE data[5] = CMD_GETAREAFLAGS /\ data[6] = ARMED_FLAG_ROW /\ data[7] = 1

OtherProbe(probe) ==
    IF probe = "get_changed_zones_state" THEN "get_armed_area_state"
    ELSE "get_changed_zones_state"

\* C16: an idle probe is issued only when more than 30 s have passed since
\* the last command was sent; the first idle probe of a run is the
\* zone-changes poll (GETZONECHANGES), and every later one is the other of
\* the zone-changes poll and the armed-area poll (GETAREAFLAGS, row 21) than
\* the probe before it; a GETZONECHANGES frame is only ever sent as a probe.
C16_IdleProbesAlternate ==
    [][/\ \A i \in IdleProbes(out') :
             /\ clock' - last_command_time > 30
             /\ out'[i].probe = IF IsNone(lastProbe) THEN "get_changed_zones_state"
                                ELSE OtherProbe(Val(lastProbe))
             /\ i < Len(out') /\ out'[i + 1].e = "send" /\ out'[i + 1].new
             /\ ProbeFrame(out'[i].probe, out'[i + 1].data)
       /\ Cardinality(IdleProbes(out')) <= 1
       /\ \A i \in 1..Len(out') :
             out'[i].e = "send" /\ out'[i].new /\ out'[i].data[5] = CMD_GETZONECHANGES
                => i > 1 /\ (i - 1) \in IdleProbes(out')
      ]_vars

\* a zone-changes poll is issued a minute and a half into the run, when
\* another zone-changes poll and an armed-area poll have gone before it
C16_Witness ==
    /\ IdleProbes(out) # {}
    /\ lastIdleCommand = 0
    /\ lastProbe = Some("get_changed_zones_state")
    /\ clock >= Epoch + 90


(***************************************************************************)
(* Busy idle sessions: no command is asked of the core, and zone events    *)
(* may arrive at any receive of the inner loop.                            *)
(***************************************************************************)
BusyEnv ==
    [connects |-> {TRUE}, took |-> {0}, delays |-> {0, 1},
     faults |-> {}, lossy |-> {}, idle |-> {"timeout"},
     maxcmds |-> MaxCmdsIdle, maxclock |-> MaxClockBusy, quiet |-> TRUE,
     acks |-> {<<CMD_RESPONSE_ACK>>}, zonecfg |-> {<<1, 1>>},
     users |-> {TRUE}, zonestates |-> {0}, changes |-> {0}, flags |-> {0},
     msgs |-> {<<MSG_ZONEEVENT, 1, 1>>}, mseqs |-> {0, 1}]

ConnectBusy == Connect(BusyEnv)
RecvBusy == Recv(BusyEnv)
NextBusy == ConnectBusy \/ RecvBusy
SpecBusy == Init /\ [][NextBusy]_vars

\* the step puts a command frame on the wire, new or again
Transmits(log) == \E i \in 1..Len(log) : log[i].e = "send"

AliveCalls(log) == {i \in 1..Len(log) : log[i].e = "cb" /\ log[i].f = "on_alive"}

\* C18: the receive loop invokes on_alive before a receive whenever more
\* than alive_heartbeat_secs (300 s) have passed since the invocation before
\* it, so that no receive begins later than that; and on_alive is invoked
\* only then, so that two consecutive invocations are more than 300 s apart.
C18_AliveEveryFiveMinutes ==
    [][/\ AliveCalls(out') # {} => clock' - time_last_heartbeat > 300
       /\ Cardinality(AliveCalls(out')) <= 1
       /\ ctl' = [k |-> "block", v |-> "recv"]
          => clock' - time_last_heartbeat' <= 300
       /\ time_last_heartbeat' # time_last_heartbeat
          => AliveCalls(out') # {} /\ time_last_heartbeat' = clock'
      ]_vars

\* on_alive is invoked for the second time, more than 300 s after the first
C18_Witness ==
    /\ AliveCalls(out) # {}
    /\ clock > Epoch + 300
    /\ time_last_heartbeat = clock


(***************************************************************************)
(* Outages: the panel answers LOGIN with NAK, or drops the connection      *)
(* during SETEVENTMESSAGES or once the session is idle.                    *)
(***************************************************************************)
OutageEnv ==
    [connects |-> {TRUE}, took |-> {0}, delays |-> {0},
     faults |-> {"drop"}, lossy |-> {CMD_SETEVENTMESSAGES},
     idle |-> {"drop"}, maxcmds |-> MaxCmdsOutage, maxclock |-> MaxClockOutage,
     acks |-> {<<CMD_RESPONSE_ACK>>, <<CMD_RESPONSE_NAK>>},
     zonecfg |-> {<<1, 1>>}, users |-> {TRUE}, zonestates |-> {0},
     changes |-> {0}, flags |-> {0}, msgs |-> {}, mseqs |-> {}]

ConnectOutage == Connect(OutageEnv)
RecvOutage == Recv(OutageEnv)
NextOutage == ConnectOutage \/ RecvOutage
SpecOutage == Init /\ [][NextOutage]_vars

\* the step invokes the notification hook with the message msg
Hooked(log, msg) == \E i \in 1..Len(log) : log[i] = [e |-> "hook", msg |-> msg]

HookCalls(log) == {i \in 1..Len(log) : log[i].e = "hook"}

\* the step establishes a session: LOGIN and SETEVENTMESSAGES acknowledged
Established == ~connected /\ connected'

\* the step ends a session, and event_loop notes the time
SessionEnded == connected /\ ~connected'

SessionEnv ==
    [connects |-> {TRUE, FALSE}, took |-> {0, 1}, delays |-> {0},
     faults |-> {"timeout", "drop"}, lossy |-> {CMD_LOGIN, CMD_SETEVENTMESSAGES},
     idle |-> {}, maxcmds |-> MaxCmdsSession, maxclock |-> MaxClockSession,
     acks |-> {<<CMD_RESPONSE_ACK>>, <<CMD_RESPONSE_NAK>>},
     zonecfg |-> {<<1, 1>>}, users |-> {TRUE}, zonestates |-> {0},
     changes |-> {0}, flags |-> {0}, msgs |-> {}, mseqs |-> {}]

ConnectSession == Connect(SessionEnv)
RecvSession == Recv(SessionEnv)
NextSession == ConnectSession \/ RecvSession
SpecSession == Init /\ [][NextSession]_vars

\* the step ends an attempt to establish a session and begins the next
FailedEstablishing ==
    /\ stk # <<>> /\ stk[1].at \in {"connect", "login", "set_event_messages"}
    /\ ctl' = [k |-> "block", v |-> "connect"]

\* C20: when an attempt to establish a session fails (connect error, LOGIN
\* not acknowledged, SETEVENTMESSAGES not acknowledged), the next connect
\* finds the socket handle null and comes 5 s or more after the failure.
C20_FailureClosesAndSleeps ==
    [][FailedEstablishing
          => /\ \E i \in 1..Len(out') : out'[i] = [e |-> "connect", s |-> "None"]
             /\ clock' - (clock + rx'.d) >= RETRY_SLEEP_SECS]_vars

\* what the code does of it: after a login that failed the handle is null
\* and 5 s have passed
C20_LoginFailureClosesAndSleeps ==
    [][FailedEstablishing /\ stk[1].at = "login"
          => /\ \E i \in 1..Len(out') : out'[i] = [e |-> "connect", s |-> "None"]
             /\ clock' - (clock + rx'.d) >= RETRY_SLEEP_SECS]_vars

(***************************************************************************)
(* SpecFaults: a wire that fails.  While the date is queried, a request of *)
(* the queue is outstanding or an idle probe is, and while the core waits  *)
(* for events, a receive may raise a socket error, read nothing, read      *)
(* '+++' or '+++A', read a frame that does not start with 't' or a command *)
(* frame, or read a LOGIN NAK in place of the response.                    *)
(***************************************************************************)
FaultsEnv ==
    [connects |-> {TRUE}, took |-> {0}, delays |-> {0},
     faults |-> {"error", "eof", "drop", "hangup", "badstart", "cmdframe",
                 "loginnak"},
     lossy |-> {CMD_GETDATETIME, CMD_DISARMAREAS, CMD_GETZONECHANGES},
     idle |-> {"timeout", "error", "eof", "drop", "hangup", "badstart",
               "cmdframe"},
     maxcmds |-> MaxCmdsFaults, maxclock |-> MaxClockFaults,
     acks |-> {<<CMD_RESPONSE_ACK>>},
     zonecfg |-> {<<1, 1>>}, users |-> {TRUE}, zonestates |-> {0},
     changes |-> {0}, flags |-> {0}, msgs |-> {}, mseqs |-> {}]

ConnectFaults == Connect(FaultsEnv)
RecvFaults == Recv(FaultsEnv)
DisArmFaults == requestDisArmAreas(GroundFloor)
NextFaults == ConnectFaults \/ RecvFaults \/ DisArmFaults
SpecFaults == Init /\ [][NextFaults]_vars

\* event_loop waits for events: it is in its inner loop, blocked in the recv
\* of recvresponse, with no command outstanding
WaitingForEvents ==
    /\ Len(stk) = 2
    /\ stk[1].at = "recvresponse"
    /\ ctl = [k |-> "block", v |-> "recv"]
    /\ IsNone(last_command)

\* event_loop is in its inner loop, whatever recvresponse is doing
InInnerLoop == stk # <<>> /\ stk[1].at = "recvresponse"

\* C21: a receive timeout in the inner event loop simply continues the loop;
\* any other socket error raised by a receive of the inner loop returns
\* control to the outer loop, which attempts a new connect; event_loop does
\* not terminate.
C21_SocketErrorReconnects ==
    [][/\ (rx'.e = "timeout" /\ WaitingForEvents)
          => /\ ctl' = [k |-> "block", v |-> "recv"]
             /\ stk'[1].at = "recvresponse"
             /\ s' = s
       /\ (rx'.e = "error" /\ InInnerLoop)
          => ctl' = [k |-> "block", v |-> "connect"]]_vars

\* the step closed the socket: the handle is null at its end, or was when
\* the step came to its next connect
SocketClosed(log, handle) ==
    \/ handle = "None"
    \/ \E i \in 1..Len(log) : log[i] = [e |-> "connect", s |-> "None"]

\* chunk begins with a full header whose start byte is not 't', or is a
\* well-formed command frame
BadStartOrCommand(chunk) ==
    \/ Len(chunk) >= LENGTH_HEADER /\ chunk[1] # HEADER_START
                                   /\ chunk[1] # PLUS
    \/ GoodFrame(chunk, HEADER_TYPE_COMMAND)

\* C22: when a receive reads a header whose start byte is not 't', or a
\* well-formed command frame, the socket is closed before control returns,
\* and event_loop, if it was waiting for events, goes on to reconnect.
C22_ProtocolViolationCloses ==
    [][(rx'.e = "data" /\ BadStartOrCommand(rx'.chunk))
          => /\ SocketClosed(out', s')
             /\ WaitingForEvents => ctl' = [k |-> "block", v |-> "connect"]]_vars

\* what recv returns when the connection is gone: nothing, '+++' or '+++A'
ConnectionGone(chunk) ==
    chunk \in {<<>>, <<PLUS, PLUS, PLUS>>, <<PLUS, PLUS, PLUS, LETTER_A>>}

\* C23: when a receive reads zero bytes, '+++' or '+++A', the socket is
\* closed and its handle null; a command that was outstanding fails at once,
\* sendcommand returning null for it with no retransmission, and with no
\* command outstanding event_loop goes on to reconnect.
C23_ConnectionGoneCloses ==
    [][(rx'.e = "data" /\ ConnectionGone(rx'.chunk))
          => /\ SocketClosed(out', s')
             /\ Len(out') >= 1
             /\ ~IsNone(last_command)
                => /\ out'[1].e = "return"
                   /\ out'[1].cmd = Val(last_command)[5]
                   /\ IsNone(out'[1].v)
                   /\ \A i \in 1..Len(out') :
                        out'[i].e = "send" => out'[i].new
             /\ WaitingForEvents
                => /\ out' = <<[e |-> "connect", s |-> "None"]>>
                   /\ ctl' = [k |-> "block", v |-> "connect"]]_vars

\* the panel hung up ('+++A') while an idle probe was outstanding: the probe
\* failed and event_loop found the handle null at its next connect
C23_Witness ==
    /\ rx.e = "data"
    /\ rx.chunk = <<PLUS, PLUS, PLUS, LETTER_A>>
    /\ Len(out) >= 2
    /\ out[1].e = "return"
    /\ out[1].cmd = CMD_GETZONECHANGES
    /\ IsNone(out[1].v)
    /\ out[Len(out)] = [e |-> "connect", s |-> "None"]
    /\ ctl = [k |-> "block", v |-> "connect"]

\* chunk is a response frame of opcode LOGIN whose payload starts with NAK
LoginNak(chunk) ==
    /\ GoodFrame(chunk, HEADER_TYPE_RESPONSE)
    /\ Len(FramePayload(chunk)) >= 2
    /\ FramePayload(chunk)[1] = CMD_LOGIN
    /\ FramePayload(chunk)[2] = CMD_RESPONSE_NAK

\* C24: when the response with the matching sequence to an outstanding
\* command carries opcode LOGIN and a payload starting with NAK, the socket
\* is closed and event_loop comes to its next connect before any further
\* command is sent.
C24_LoginNakEndsSession ==
    [][(/\ rx'.e = "data"
        /\ LoginNak(rx'.chunk)
        /\ ~IsNone(last_command)
        /\ rx'.chunk[4] = last_sequence)
          => \E i \in 1..Len(out') :
                /\ out'[i] = [e |-> "connect", s |-> "None"]
                /\ \A j \in 1..(i - 1) : out'[j].e # "send"]_vars

(***************************************************************************)
(* Specifications of the pure helpers: a freshly constructed object, one   *)
(* input drawn from a bounded set, and one call.                           *)
(***************************************************************************)
\* TexecomConnect.__init__ as in Init, with input as what the step is to use
Constructed(input) ==
    /\ s = "unconnected"
    /\ nextseq = 0
    /\ last_sequence = -1
    /\ last_command = None
    /\ last_command_time = 0
    /\ time_last_heartbeat = 0
    /\ last_received_seq = -1
    /\ lastIdleCommand = 0
    /\ arm_disarm_reset_queue = <<>>
    /\ panel = NoPanel
    /\ highestUsedZone = NoInt
    /\ zones = <<>>
    /\ areas = <<>>
    /\ users = {}
    /\ lastConnectedAt = Epoch
    /\ notifiedConnectionLoss = FALSE
    /\ connected = FALSE
    /\ stk = <<[fn |-> "event_loop", at |-> "connect"]>>
    /\ ctl = [k |-> "block", v |-> "connect"]
    /\ clock = Epoch
    /\ rx = input
    /\ out = <<>>
    /\ issued = <<>>
    /\ during = None
    /\ ncmds = 0
    /\ lastProbe = None
    /\ lastHook = None

\* the bytes of the BCD inputs: 0x12, 0x34, 0x09, 0x1F, 0xF1, 0xFF
BcdBytes == {18, 52, 9, 31, 241, 255}

BcdInputs == UNION {[1..n -> BcdBytes] : n \in 0..MaxBcdLen}

InitBcd == \E bcd \in BcdInputs : Constructed([e |-> "bcd", bcd |-> bcd])

\* one call of bcdDecodeBytes, its result noted in the log
DecodeBcd ==
    /\ rx.e = "bcd"
    /\ out = <<>>
    /\ out' = <<[e |-> "bcd", v |-> bcdDecodeBytes(rx.bcd)]>>
    /\ UNCHANGED <<s, nextseq, last_sequence, last_command, last_command_time,
                   time_last_heartbeat, last_received_seq, lastIdleCommand,
                   arm_disarm_reset_queue, panel, highestUsedZone, zones,
                   areas, users, lastConnectedAt, notifiedConnectionLoss,
                   connected, stk, ctl, clock, rx, issued, during, ncmds,
                   lastProbe, lastHook>>

SpecBcd == InitBcd /\ [][DecodeBcd]_vars

\* the nibbles of a byte string, high nibble first
Nibbles(b) ==
    [i \in 1..(2 * Len(b)) |->
        IF i % 2 = 1 THEN b[(i + 1) \div 2] \div 16 ELSE b[i \div 2] % 16]

\* the longest prefix of a sequence of nibbles that are all decimal digits
DecimalPrefix(n) ==
    LET k == CHOOSE j \in 0..Len(n) :
                 /\ \A i \in 1..j : n[i] <= 9
                 /\ j < Len(n) => n[j + 1] > 9
    IN SubSeq(n, 1, k)

\* C25: bcdDecodeBytes returns the decimal digits of the nibbles in order,
\* stopping at the first nibble greater than 9: the result is the digits of
\* the longest prefix of nibbles that are all 0..9.
C25_DigitsUpToFirstNonDecimal ==
    \A i \in 1..Len(out) :
        out[i].e = "bcd" => out[i].v = DecimalPrefix(Nibbles(rx.bcd))

(***************************************************************************)
(* SpecOdd: a healthy panel whose unsolicited messages include ones of an  *)
(* unknown type and ones whose payload is shorter or longer than the       *)
(* layout of their type.                                                   *)
(***************************************************************************)
OddEnv ==
    [connects |-> {TRUE}, took |-> {0}, delays |-> {0},
     faults |-> {}, lossy |-> {}, idle |-> {}, maxcmds |-> MaxCmds,
     acks |-> {<<CMD_RESPONSE_ACK>>}, zonecfg |-> {<<1, 1>>},
     users |-> {TRUE}, zonestates |-> {0}, changes |-> {0}, flags |-> {0},
     msgs |-> {<<MSG_ZONEEVENT, 1, 1>>,
               <<MSG_LOGEVENT + 1, 1, 1>>,
               <<MSG_ZONEEVENT, 1>>,
               <<MSG_ZONEEVENT, 1, 0, 1, 1>>,
               <<MSG_AREAEVENT, 1>>,
               <<MSG_AREAEVENT, 1, AREA_STATE_ARMED, 0>>,
               <<MSG_OUTPUTEVENT, 1>>,
               <<MSG_USEREVENT, 1>>,
               <<MSG_LOGEVENT, 1, 1, 1>>},
     mseqs |-> {0, 1}]

ConnectOdd == Connect(OddEnv)
RecvOdd == Recv(OddEnv)
NextOdd == ConnectOdd \/ RecvOdd
SpecOdd == Init /\ [][NextOdd]_vars

\* chunk is a message frame of an unrecognised type, or of a type whose
\* payload layout has another length than the payload of the frame
OddMessage(chunk) ==
    /\ GoodFrame(chunk, HEADER_TYPE_MESSAGE)
    /\ LET type == FramePayload(chunk)[1]
           n == Len(FramePayload(chunk)) - 1
       IN \/ type \notin {MSG_DEBUG, MSG_ZONEEVENT, MSG_AREAEVENT,
                          MSG_OUTPUTEVENT, MSG_USEREVENT, MSG_LOGEVENT}
          \/ type = MSG_ZONEEVENT /\ n \notin {2, 3}
          \/ type \in {MSG_AREAEVENT, MSG_OUTPUTEVENT, MSG_USEREVENT} /\ n # 2
          \/ type = MSG_LOGEVENT /\ n \notin {8, 9, 16}

\* C26: an unsolicited message of an unrecognised type, or with a payload
\* length that its type does not have, changes no zone, area or user,
\* invokes no zone or area callback, and leaves the session running with the
\* socket open.
C26_OddMessageIgnored ==
    [][(rx'.e = "data" /\ OddMessage(rx'.chunk))
          => /\ zones' = zones
             /\ areas' = areas
             /\ users' = users
             /\ \A i \in 1..Len(out') : out'[i].e # "cb"
             /\ ctl'.k # "dead"
             /\ s' = "connected"]_vars

(***************************************************************************)
(* SpecFrame: sendcommandbody builds one frame from a body and a value of  *)
(* the sequence counter, on a connected socket.                            *)
(***************************************************************************)
\* bytes of the bodies: 0x00, 0x01, the start byte 't' and 0xFF
BodyBytes == {0, 1, HEADER_START, 255}

Bodies == UNION {[1..n -> BodyBytes] : n \in 1..MaxBodyLen}

InitFrame ==
    \E body \in Bodies, n \in {0, 1, 255, 256} :
        Constructed([e |-> "frame", body |-> body, nextseq |-> n])

\* one call of sendcommandbody with the counter at rx.nextseq
SendFrame ==
    /\ rx.e = "frame"
    /\ out = <<>>
    /\ Apply(sendcommandbody([M EXCEPT !.s = "connected",
                                       !.nextseq = rx.nextseq], rx.body))
    /\ rx' = rx

SpecFrame == InitFrame /\ [][SendFrame]_vars

\* the receive path's reading of a frame: 4 header bytes, LEN - 4 more, the
\* last of them the CRC byte, the CRC recomputed over header and payload
DecodeFrame(chunk) ==
    LET header == Slice(chunk, 0, LENGTH_HEADER)
        expected_len == header[3] - LENGTH_HEADER
        raw == Slice(chunk, LENGTH_HEADER, LENGTH_HEADER + expected_len)
        payload == Slice(raw, 0, Len(raw) - 1)
    IN [msg_start |-> header[1], msg_type |-> header[2],
        msg_sequence |-> header[4], payload |-> payload,
        complete |-> Len(raw) = expected_len /\ Len(raw) > 0,
        crc_ok |-> raw # <<>> /\ raw[Len(raw)] = crc8_func(header \o payload),
        rest |-> Slice(chunk, LENGTH_HEADER + expected_len, Len(chunk))]

\* C27: every command frame built by sendcommandbody is 't','C',LEN,SEQ,
\* body,CRC with LEN the length of the whole frame, CRC byte included; read
\* by the receive path's rules it is read whole, passes the CRC check and
\* yields the same sequence number and body, and encoding the fields read
\* gives the same bytes.
C27_FrameRoundTrip ==
    \A i \in 1..Len(out) :
        out[i].e = "send" =>
            LET data == out[i].data
                d == DecodeFrame(data)
            IN /\ data = <<HEADER_START, HEADER_TYPE_COMMAND, Len(data),
                           last_sequence>> \o rx.body
                         \o <<crc8_func(SubSeq(data, 1, Len(data) - 1))>>
               /\ last_sequence = rx.nextseq % 256
               /\ d.msg_start = HEADER_START
               /\ d.msg_type = HEADER_TYPE_COMMAND
               /\ d.complete
               /\ d.rest = <<>>
               /\ d.crc_ok
               /\ d.msg_sequence = last_sequence
               /\ d.payload = rx.body
               /\ EncodeFrame(d.msg_type, d.msg_sequence, d.payload) = data

\* the frame of a body of three bytes sent when the counter stood at 256:
\* it carries sequence 0
C27_Witness ==
    /\ rx.e = "frame"
    /\ rx.nextseq = 256
    /\ Len(rx.body) = MaxBodyLen
    /\ Len(out) = 1
    /\ out[1].e = "send"
    /\ out[1].data[4] = 0
    /\ Len(out[1].data) = MaxBodyLen + 5
    /\ last_command = Some(out[1].data)

(***************************************************************************)
(* Responses and messages out of sequence (SpecRetry, SpecEvents)          *)
(***************************************************************************)
\* chunk is a response frame whose sequence byte is not last_sequence
WrongSeqResponse(chunk) ==
    /\ GoodFrame(chunk, HEADER_TYPE_RESPONSE)
    /\ chunk[4] # last_sequence

\* C28: a response frame whose sequence number differs from that of the
\* last sent command is never returned to the caller as the command's
\* payload: the step returns nothing but null, and unless the receive
\* window has run out the command stays outstanding and recvresponse
\* blocks in the next receive.
C28_WrongSeqResponseIgnored ==
    [][(rx'.e = "data" /\ WrongSeqResponse(rx'.chunk) /\ ~IsNone(last_command))
          => /\ \A i \in 1..Len(out') :
                    out'[i].e = "return" => IsNone(out'[i].v)
             /\ out' = <<>> => /\ last_command' = last_command
                               /\ stk' = stk
                               /\ ctl' = [k |-> "block", v |-> "recv"]]_vars

\* a response to the outstanding command's opcode has arrived under another
\* sequence byte, and the command is outstanding still
C28_Witness ==
    /\ rx.e = "data"
    /\ GoodFrame(rx.chunk, HEADER_TYPE_RESPONSE)
    /\ ~IsNone(last_command)
    /\ rx.chunk[4] # last_sequence
    /\ rx.chunk[5] = Val(last_command)[5]
    /\ out = <<>>
    /\ ctl = [k |-> "block", v |-> "recv"]

\* C29: a message frame whose sequence byte equals last_received_seq is not
\* dispatched: no entity changes, no callback is invoked and
\* last_received_seq stays; every other message frame, one that is neither
\* the last sequence nor its successor included, is dispatched and its
\* sequence byte becomes last_received_seq.
C29_DuplicateDroppedOthersDispatched ==
    [][(rx'.e = "data" /\ GoodFrame(rx'.chunk, HEADER_TYPE_MESSAGE))
          => IF rx'.chunk[4] = last_received_seq
             THEN /\ Dispatches(out') = {}
                  /\ \A i \in 1..Len(out') : out'[i].e # "cb"
                  /\ zones' = zones
                  /\ areas' = areas
                  /\ last_received_seq' = last_received_seq
             ELSE /\ Dispatches(out') = {1}
                  /\ out'[1].payload = FramePayload(rx'.chunk)
                  /\ last_received_seq' = rx'.chunk[4]]_vars

\* a zone event of sequence 0 has been dispatched after an area event was:
\* the area event had sequence 1, whose successor is 2
C29_Witness ==
    /\ rx.e = "data"
    /\ GoodFrame(rx.chunk, HEADER_TYPE_MESSAGE)
    /\ rx.chunk[4] = 0
    /\ Dispatches(out) = {1}
    /\ out[1].payload = <<MSG_ZONEEVENT, 1, 1>>
    /\ Len(out) = 2
    /\ out[2].e = "cb"
    /\ last_received_seq = 0
    /\ 1 \in DOMAIN areas
    /\ areas[1].state = AREA_STATE_ARMED

(***************************************************************************)
(* SpecTracks: zone events arrive at any receive while the responses to    *)
(* the date and log-pointer queries are lost now and then, so that         *)
(* commands are retransmitted between messages.                            *)
(***************************************************************************)
TracksEnv ==
    [connects |-> {TRUE}, took |-> {0}, delays |-> {0},
     faults |-> {"timeout"}, lossy |-> {CMD_GETDATETIME, CMD_GETLOGPOINTER},
     idle |-> {}, maxcmds |-> MaxCmds,
     acks |-> {<<CMD_RESPONSE_ACK>>}, zonecfg |-> {<<1, 1>>},
     users |-> {TRUE}, zonestates |-> {0}, changes |-> {0}, flags |-> {0},
     msgs |-> {<<MSG_ZONEEVENT, 1, 1>>}, mseqs |-> {0, 1, 7}]

ConnectTracks == Connect(TracksEnv)
RecvTracks == Recv(TracksEnv)
NextTracks == ConnectTracks \/ RecvTracks
SpecTracks == Init /\ [][NextTracks]_vars

\* the entries of a step's log that put a newly issued command on the wire
NewSendsOf(log) == {i \in 1..Len(log) : log[i].e = "send" /\ log[i].new}

\* C30: the two sequences are tracked independently.  last_received_seq
\* changes only in a step that received a message frame, and then to the
\* sequence byte of that frame: sending or retransmitting a command and
\* receiving a response leave it alone.  last_sequence and the next outgoing
\* sequence number change only by issuing a new command, to the sequence
\* byte of that command and its successor: receiving a message, a response
\* or a timeout that retransmits leaves them alone.
C30_SequencesIndependent ==
    [][/\ last_received_seq' # last_received_seq
          => /\ rx'.e = "data"
             /\ GoodFrame(rx'.chunk, HEADER_TYPE_MESSAGE)
             /\ last_received_seq' = rx'.chunk[4]
       /\ NewSendsOf(out') = {}
          => /\ nextseq' = nextseq
             /\ last_sequence' = last_sequence
       /\ \A i \in NewSendsOf(out') :
             (\A j \in NewSendsOf(out') : j <= i)
                => /\ last_sequence' = out'[i].data[4]
                   /\ nextseq' = out'[i].data[4] + 1]_vars

\* a command has just been retransmitted after messages were received:
\* the outgoing sequence stands at 3, the incoming at 7
C30_Witness ==
    /\ rx.e = "timeout"
    /\ Len(out) = 1
    /\ out[1].e = "send"
    /\ ~out[1].new
    /\ out[1].data[4] = last_sequence
    /\ last_sequence = 3
    /\ nextseq = 4
    /\ last_received_seq = 7

(***************************************************************************)
(* SpecOrder: sessions from the connect to the inner loop and back.  The   *)
(* panel may refuse the login, stay silent or drop the connection while    *)
(* LOGIN or SETEVENTMESSAGES is outstanding, refuse a queued request and    *)
(* drop an idle session; the consumer thread queues requests at any moment *)
(***************************************************************************)
OrderEnv ==
    [connects |-> {TRUE}, took |-> {0}, delays |-> {0},
     faults |-> {"timeout", "drop"},
     lossy |-> {CMD_LOGIN, CMD_SETEVENTMESSAGES},
     idle |-> {"drop"}, maxcmds |-> MaxCmdsOrder, maxclock |-> MaxClockOrder,
     acks |-> {<<CMD_RESPONSE_ACK>>, <<CMD_RESPONSE_NAK>>},
     zonecfg |-> {<<1, 1>>}, users |-> {TRUE}, zonestates |-> {0},
     changes |-> {0}, flags |-> {0}, msgs |-> {}, mseqs |-> {}]

ConnectOrder == Connect(OrderEnv)
RecvOrder == Recv(OrderEnv)
DisArmOrder == requestDisArmAreas(GroundFloor)
NextOrder == ConnectOrder \/ RecvOrder \/ DisArmOrder
SpecOrder == Init /\ [][NextOrder]_vars

\* the calls of event_loop in the order of its text
Stages ==
    <<"connect", "login", "set_event_messages", "get_number_zones",
      "get_date_time", "get_system_power", "get_log_pointer", "get_site_data",
      "get_all_zones_state", "get_armed_area_state", "recvresponse">>

StageIndex(at) == CHOOSE i \in 1..Len(Stages) : Stages[i] = at

\* the call that follows the call `at` in the text of event_loop
NextStage(at) ==
    IF at = "recvresponse" THEN at ELSE Stages[StageIndex(at) + 1]

\* the opcodes of the commands a call of event_loop issues
StageOps(at) ==
    CASE at = "connect" -> {}
      [] at = "login" -> {CMD_LOGIN}
      [] at = "set_event_messages" -> {CMD_SETEVENTMESSAGES}
      [] at = "get_number_zones" -> {CMD_GETPANELIDENTIFICATION}
      [] at = "get_date_time" -> {CMD_GETDATETIME}
      [] at = "get_system_power" -> {CMD_GETSYSTEMPOWER}
      [] at = "get_log_pointer" -> {CMD_GETLOGPOINTER}
      [] at = "get_site_data" ->
            {CMD_GETAREADETAILS, CMD_GETZONEDETAILS, CMD_GETUSER}
      [] at = "get_all_zones_state" -> {CMD_GETZONESTATE}
      [] at = "get_armed_area_state" -> {CMD_GETAREAFLAGS}
      [] at = "recvresponse" ->
            {CMD_ARMAREAS, CMD_DISARMAREAS, CMD_RESETAREAS, CMD_GETZONECHANGES,
             CMD_GETZONESTATE, CMD_GETAREAFLAGS}

\* the opcodes of the command frames the step newly issued
NewOps(log) == {log[i].data[5] : i \in {j \in 1..Len(log) : log[j].e = "send" /\ log[j].new}}

\* chunk acknowledges the outstanding command, whose opcode is cmd
Acknowledges(chunk, cmd) ==
    /\ MatchingResponse(chunk)
    /\ FramePayload(chunk) = <<cmd, CMD_RESPONSE_ACK>>

ArmedFlag(chunk, a) == Bit(FramePayload(chunk)[2], a - 1)

\* C32: a step that applies the answer of an armed-flag poll leaves every
\* area whose flag is set and whose stored state was not part-armed with the
\* stored state armed.
C32_PollRecordsArmed ==
    [][(/\ PollApplied(out')
        /\ rx'.e = "data"
        /\ MatchingResponse(rx'.chunk)
        /\ rx'.chunk[5] = CMD_GETAREAFLAGS)
          => \A a \in DOMAIN areas :
                (/\ a <= 8
                 /\ ArmedFlag(rx'.chunk, a) = 1
                 /\ areas[a].state # AREA_STATE_PARTARMED)
                   => areas'[a].state = AREA_STATE_ARMED]_vars

(***************************************************************************)
(* SpecStream: zone events arrive at any receive, at once or a second      *)
(* after the one before, also while the date query waits for a response    *)
(* that may never come.                                                    *)
(***************************************************************************)
StreamEnv ==
    [connects |-> {TRUE}, took |-> {0}, delays |-> {0, 1},
     faults |-> {"timeout"}, lossy |-> {CMD_GETDATETIME},
     idle |-> {}, maxcmds |-> MaxCmdsStream, maxclock |-> MaxClockStream,
     acks |-> {<<CMD_RESPONSE_ACK>>}, zonecfg |-> {<<1, 1>>},
     users |-> {TRUE}, zonestates |-> {0}, changes |-> {0}, flags |-> {0},
     msgs |-> {<<MSG_ZONEEVENT, 1, 1>>}, mseqs |-> {0, 1}]

ConnectStream == Connect(StreamEnv)
RecvStream == Recv(StreamEnv)
NextStream == ConnectStream \/ RecvStream
SpecStream == Init /\ [][NextStream]_vars

\* sendcommand waits in a receive window: recvresponse, called by
\* sendcommand, is blocked in recv
InWindow ==
    /\ ctl = [k |-> "block", v |-> "recv"]
    /\ Len(stk) >= 3
    /\ Top(M).fn = "recvresponse"
    /\ Outstanding.fn = "sendcommand"

\* the step resent the outstanding command
Resent(log, frame) ==
    \E i \in 1..Len(log) :
        log[i].e = "send" /\ ~log[i].new /\ log[i].data = frame

\* the step returned from sendcommand for the command cmd
Returned(log, cmd) ==
    \E i \in 1..Len(log) : log[i].e = "return" /\ log[i].cmd = cmd

\* sendcommand gave the command cmd up after its last retransmission
GaveUp(log, cmd) ==
    \E i \in 1..Len(log) :
        /\ log[i].e = "return"
        /\ log[i].cmd = cmd
        /\ IsNone(log[i].v)
        /\ log[i].sends = CMD_RETRIES + 1

\* C33: a receive of a window of sendcommand begins no later than
\* CMD_TIMEOUT after the window began; a window is one of at most
\* CMD_RETRIES of its command; and when a receive returns, with whatever
\* bytes, later than CMD_TIMEOUT after the window began, the step ends the
\* window: sendcommand returns, or it resends the command and either opens
\* the next window at that moment or, the windows used up, gives the command
\* up.
C33_WindowsEnd ==
    [][InWindow =>
        LET w == Top(M)
            g == Outstanding
        IN /\ clock - w.startTime <= CMD_TIMEOUT
           /\ g.retries \in 0..(CMD_RETRIES - 1)
           /\ g.sends = CMD_RETRIES - g.retries
           /\ (rx'.e \in {"data", "timeout"}
               /\ clock + rx'.d - w.startTime > CMD_TIMEOUT)
                => \/ Returned(out', g.cmd) /\ ~Resent(out', Val(last_command))
                   \/ /\ Resent(out', Val(last_command))
                      /\ IF g.retries = 0 THEN GaveUp(out', g.cmd)
                         ELSE /\ ~Returned(out', g.cmd)
                              /\ ctl' = [k |-> "block", v |-> "recv"]
                              /\ stk' = [stk EXCEPT
                                           ![Len(stk)].startTime = clock',
                                           ![Len(stk) - 1].retries = @ - 1,
                                           ![Len(stk) - 1].sends = @ + 1]
      ]_vars

\* a zone event has ended the third window of a command: the receive that
\* read it returned more than CMD_TIMEOUT after the window began, and
\* sendcommand resent the command and gave it up
C33_Witness ==
    /\ rx.e = "data"
    /\ GoodFrame(rx.chunk, HEADER_TYPE_MESSAGE)
    /\ \E i \in 1..Len(out) : out[i].e = "dispatch"
    /\ \E i \in 1..Len(out) : out[i].e = "send" /\ ~out[i].new
    /\ \E i \in 1..Len(out) :
          /\ out[i].e = "return"
          /\ IsNone(out[i].v)
          /\ out[i].sends = CMD_RETRIES + 1

(***************************************************************************)
(* The socket handle after closesocket (under SpecFaults)                  *)
(***************************************************************************)
\* s.send or s.recv was called while s was None: Python raises
\* AttributeError, which nothing catches
UsedClosedSocket == ctl = [k |-> "dead", v |-> "AttributeError"] /\ s = "None"

\* C34: once closesocket has set the handle to None, no send and no receive
\* is attempted on it before the next connect.
C34_NoUseOfClosedSocket == ~UsedClosedSocket

(***************************************************************************)
(* Transmissions and the receive windows that follow them (under           *)
(* SpecRetry)                                                              *)
(***************************************************************************)
\* the step put a command frame on the wire at place i of its log and
\* sendcommand returned None for that command right after, without a receive
SentAndGaveUp(log, i) ==
    /\ log[i].e = "send"
    /\ i < Len(log)
    /\ log[i + 1].e = "return"
    /\ log[i + 1].cmd = log[i].data[5]
    /\ IsNone(log[i + 1].v)

\* C35: every transmission of a command frame, the first and each resend, is
\* followed by a receive; sendcommand never sends a frame and then returns
\* None without having waited for the response.
C35_EverySendAwaited ==
    [][\A i \in 1..Len(out') : ~SentAndGaveUp(out', i)]_vars

(***************************************************************************)
(* The heartbeat callback and the login (under SpecSession)                *)
(***************************************************************************)
\* event_loop is connecting or waits for the answer to LOGIN: no session is
\* logged in
NotLoggedIn == stk # <<>> /\ stk[1].at \in {"connect", "login"}

\* C36: on_alive is invoked only while a logged-in session exists: a step
\* that invokes it, which it does just before a receive, does not leave
\* event_loop connecting or waiting for the answer to LOGIN.
C36_AliveOnlyWhenLoggedIn ==
    [][AliveCalls(out') # {} => ~NotLoggedIn']_vars

(***************************************************************************)
(* SpecResume: sessions that the panel drops while they are idle and that  *)
(* are set up again; in each the panel sends zone events, numbered 0 or 1, *)
(* while the core waits for events.  No time passes, so no idle probe is   *)
(* sent.                                                                   *)
(***************************************************************************)
ResumeEnv ==
    [connects |-> {TRUE}, took |-> {0}, delays |-> {0},
     faults |-> {}, lossy |-> {}, idle |-> {"drop"},
     maxcmds |-> MaxCmdsReload, quiet |-> TRUE,
     acks |-> {<<CMD_RESPONSE_ACK>>}, zonecfg |-> {<<1, 1>>},
     users |-> {TRUE}, zonestates |-> {0}, changes |-> {0}, flags |-> {0},
     msgs |-> {<<MSG_ZONEEVENT, 1, 1>>}, mseqs |-> {0, 1}]

ConnectResume == Connect(ResumeEnv)
RecvResume == Recv(ResumeEnv)
NextResume == ConnectResume \/ RecvResume
SpecResume == Init /\ [][NextResume]_vars

\* the session has loaded its topology, whose last command is the armed-flag
\* poll, and has dispatched no message since: it waits for its first event
NoMessageYet ==
    /\ WaitingForEvents
    /\ issued # <<>>
    /\ issued[5] = CMD_GETAREAFLAGS
    /\ IsNone(during)

\* C37: the first message a session receives is dispatched whatever its
\* sequence byte, also in a session that follows a reconnect.
C37_FirstMessageDispatched ==
    [][(/\ NoMessageYet
        /\ rx'.e = "data"
        /\ GoodFrame(rx'.chunk, HEADER_TYPE_MESSAGE))
          => Dispatches(out') # {}]_vars

(***************************************************************************)
(* zone.py: the active and smoothed-active flags of a zone.  A zone is     *)
(* held here with the fields that save_state and update maintain; now is   *)
(* time.time() at the call.  active_func and smoothed_active_func are      *)
(* None, as alarm-monitor.py leaves them.                                  *)
(***************************************************************************)
SMOOTHED_ACTIVE_DELAY == 30

\* Zone.__init__
ZoneFlags(n) ==
    [number |-> n, state |-> NoInt, armed |-> NoInt,
     active |-> FALSE, active_since |-> NoInt, last_active |-> NoInt,
     smoothed_active |-> FALSE, smoothed_active_since |-> NoInt,
     smoothed_last_active |-> NoInt, raised |-> None]

\* the setter of Zone.smoothed_active
set_smoothed_active(z, v, now) ==
    IF v = z.smoothed_active THEN z
    ELSE IF v THEN [z EXCEPT !.smoothed_active = TRUE,
                             !.smoothed_active_since = now]
    ELSE [z EXCEPT !.smoothed_active = FALSE,
                   !.smoothed_active_since = NoInt,
                   !.smoothed_last_active = now]

\* the setter of Zone.active
set_active(z, v, now) ==
    IF v = z.active THEN z
    ELSE IF v THEN set_smoothed_active(
                      [z EXCEPT !.active = TRUE, !.active_since = now], TRUE, now)
    ELSE [z EXCEPT !.active = FALSE, !.last_active = now,
                   !.active_since = NoInt]

\* Zone.save_state: active is bit pattern 01 in the two low bits, and armed
\* is bit 4
save_state(z, zone_bitmap, now) ==
    [set_active([z EXCEPT !.state = zone_bitmap], zone_bitmap % 4 = 1, now)
       EXCEPT !.armed = Bit(zone_bitmap, 4)]

\* Zone.update clearing smoothed_active as soon as the delay has passed
update_clears_at_the_delay(z, now) ==
    IF z.smoothed_active /\ ~z.active
    THEN IF z.last_active = NoInt THEN [z EXCEPT !.raised = Some("TypeError")]
         ELSE IF now - z.last_active >= SMOOTHED_ACTIVE_DELAY
         THEN set_smoothed_active(z, FALSE, now)
         ELSE z
    ELSE z

\* Zone.update; time.time() - None raises TypeError
update(z, now) ==
    IF z.smoothed_active /\ ~z.active
    THEN IF z.last_active = NoInt THEN [z EXCEPT !.raised = Some("TypeError")]
         ELSE IF now - z.last_active > SMOOTHED_ACTIVE_DELAY
         THEN set_smoothed_active(z, FALSE, now)
         ELSE z
    ELSE z

(***************************************************************************)
(* SpecZone: one zone, on which save_state and update are called in any    *)
(* order while time passes.                                                *)
(***************************************************************************)
\* secure, active, tamper, active and alarmed
ZoneBitmaps == {0, 1, 2, 17}

\* the seconds that pass between two calls: two pauses make 30, 31 or 32
Pauses == {15, 16}

InitZone == Constructed([e |-> "zone"])

\* what a call on the zone leaves alone
ZoneCallFrame ==
    UNCHANGED <<s, nextseq, last_sequence, last_command, last_command_time,
                time_last_heartbeat, last_received_seq, lastIdleCommand,
                arm_disarm_reset_queue, panel, highestUsedZone,
                areas, users, lastConnectedAt, notifiedConnectionLoss,
                connected, stk, ctl, out, issued, during, ncmds,
                lastProbe, lastHook>>

\* get_zone(1) creates the zone
CreateZone ==
    /\ rx.e = "zone"
    /\ zones = <<>>
    /\ zones' = <<ZoneFlags(1)>>
    /\ rx' = rx
    /\ clock' = clock
    /\ ZoneCallFrame

SaveZoneState ==
    /\ zones # <<>>
    /\ IsNone(zones[1].raised)
    /\ \E zone_bitmap \in ZoneBitmaps :
          /\ zones' = <<save_state(zones[1], zone_bitmap, clock)>>
          /\ rx' = [e |-> "save_state", zone_bitmap |-> zone_bitmap]
    /\ clock' = clock
    /\ ZoneCallFrame

UpdateZone ==
    /\ zones # <<>>
    /\ IsNone(zones[1].raised)
    /\ zones' = <<update(zones[1], clock)>>
    /\ rx' = [e |-> "update"]
    /\ clock' = clock
    /\ ZoneCallFrame

\* time passes between two calls
PassTime ==
    /\ zones # <<>>
    /\ \E d \in Pauses :
          /\ clock + d <= Epoch + MaxClockZone
          /\ clock' = clock + d
          /\ rx' = [e |-> "sleep", d |-> d]
    /\ zones' = zones
    /\ ZoneCallFrame

NextZone == CreateZone \/ SaveZoneState \/ UpdateZone \/ PassTime
SpecZone == InitZone /\ [][NextZone]_vars

\* C38: after every call an active zone is smoothed-active; last_active is
\* the time of the call that last made the zone inactive; and smoothed_active
\* is cleared by update alone, exactly when the zone is not active and more
\* than smoothed_active_delay have passed since last_active; no call raises.
C38_SmoothedFollowsActive ==
    [][(zones # <<>> /\ zones' # <<>>) =>
        LET z == zones[1]
            z2 == zones'[1]
            overdue == /\ z.smoothed_active
                       /\ ~z.active
                       /\ z.last_active # NoInt
                       /\ clock - z.last_active > SMOOTHED_ACTIVE_DELAY
        IN /\ z2.active => z2.smoothed_active
           /\ IsNone(z2.raised)
           /\ z2.last_active = IF z.active /\ ~z2.active THEN clock
                               ELSE z.last_active
           /\ (z.smoothed_active /\ ~z2.smoothed_active)
                 => rx'.e = "update" /\ overdue
           /\ (rx'.e = "update" /\ overdue) => ~z2.smoothed_active
      ]_vars

\* update has cleared smoothed_active of a zone that was active and became
\* inactive more than 30 s ago
C38_Witness ==
    /\ zones # <<>>
    /\ rx.e = "update"
    /\ ~zones[1].smoothed_active
    /\ ~zones[1].active
    /\ zones[1].smoothed_last_active = clock
    /\ zones[1].last_active # NoInt
    /\ clock - zones[1].last_active > SMOOTHED_ACTIVE_DELAY

(***************************************************************************)
(* SpecHigh: a 640-zone panel whose zones 1, 2 and 300 are configured.     *)
(* The changed-zones poll reports zone 2, zones 250..259 or zone 300.      *)
(***************************************************************************)
HighEnv ==
    [connects |-> {TRUE}, took |-> {0}, delays |-> {0},
     faults |-> {}, lossy |-> {}, idle |-> {"timeout"}, maxcmds |-> MaxCmdsLarge,
     acks |-> {<<CMD_RESPONSE_ACK>>}, zonecfg |-> {<<1, 1>>},
     users |-> {TRUE}, zonestates |-> {1, 2}, changes |-> {0}, flags |-> {0},
     msgs |-> {}, mseqs |-> {},
     panelids |-> {PanelIdentification(640, 4)},
     usedzones |-> {HighZone},
     runs |-> {{<<2, 1>>}, {<<250, 10>>}, {<<HighZone, 1>>}}]

ConnectHigh == Connect(HighEnv)
RecvHigh == Recv(HighEnv)
NextHigh == ConnectHigh \/ RecvHigh
SpecHigh == Init /\ [][NextHigh]_vars

\* chunk answers the outstanding GETZONESTATE query with as many state
\* bytes as the query asks for
ZoneStateResponse(chunk) ==
    /\ MatchingResponse(chunk)
    /\ chunk[5] = CMD_GETZONESTATE
    /\ Len(FramePayload(chunk)) = 1 + Val(last_command)[7]

\* the zones the outstanding GETZONESTATE query names on the wire: its
\* start byte and its count
ZonesOnWire ==
    LET lc == Val(last_command)
    IN lc[6]..(lc[6] + lc[7] - 1)

\* the zones whose stored state the step changed
ZonesUpdated ==
    {z \in DOMAIN zones' : z \notin DOMAIN zones \/ zones'[z].state # zones[z].state}

\* C39: a step that applies the response to a GETZONESTATE query stores its
\* state bytes on the zones the query named on the wire, start byte and
\* count: no other zone changes its state, and each configured zone of that
\* range holds the byte the response carries for it.
C39_StatesStoredOnZonesAsked ==
    [][(rx'.e = "data" /\ ZoneStateResponse(rx'.chunk)) =>
         /\ ZonesUpdated \subseteq ZonesOnWire
         /\ \A z \in ZonesOnWire :
               (z \in DOMAIN zones' /\ zones'[z].zoneType # ZONETYPE_UNUSED)
                  => zones'[z].state
                        = FramePayload(rx'.chunk)[z - Val(last_command)[6] + 2]
      ]_vars

(***************************************************************************)
(* SpecLive: a panel that answers every command and drops an idle session; *)
(* the consumer thread queues arm and disarm requests at any moment.  The  *)
(* main thread is never stopped for good: connect and recv return within   *)
(* the socket timeout, so each of its steps is taken if it stays possible. *)
(***************************************************************************)
LiveEnv ==
    [connects |-> {TRUE}, took |-> {0}, delays |-> {0},
     faults |-> {}, lossy |-> {}, idle |-> {"timeout", "drop"},
     maxcmds |-> MaxCmdsLive, maxclock |-> MaxClockLive,
     acks |-> {<<CMD_RESPONSE_ACK>>}, zonecfg |-> {<<1, 1>>},
     users |-> {TRUE}, zonestates |-> {0}, changes |-> {0}, flags |-> {0},
     msgs |-> {}, mseqs |-> {}]

ConnectLive == Connect(LiveEnv)
RecvLive == Recv(LiveEnv)
ArmLive == requestArmAreas(GroundFloor)
DisArmLive == requestDisArmAreas(GroundFloor)
NextLive == ConnectLive \/ RecvLive \/ ArmLive \/ DisArmLive

\* a step of the main thread: connect or recv returns
MainLive == ConnectLive \/ RecvLive

\* the run has come to the end of MaxClockLive or MaxCmdsLive: the next step
\* of the main thread, which takes up to MaxStepSecs seconds and issues up
\* to one command, may not fit
RunEnded ==
    \/ clock + MaxStepSecs > Epoch + MaxClockLive
    \/ ncmds + 1 > MaxCmdsLive

\* weak fairness of the main thread up to the end of the run
SpecLive ==
    Init /\ [][NextLive]_vars /\ ([]<>RunEnded \/ []<><<MainLive>>_vars)

\* the new command frames of the step's log that follow place i
NewSendsAfter(log, i) == {j \in NewSendsOf(log) : j > i}

\* the run has room left for one more step that takes time, a session set up
\* from scratch and the request
RoomForSession ==
    /\ clock + 2 * MaxStepSecs <= Epoch + MaxClockLive
    /\ ncmds + SessionCmds <= MaxCmdsLive

\* C40: a request call appends the request and the queue changes otherwise
\* only when the main thread takes its head; it takes it only in the inner
\* loop of event_loop, on an open socket of a session whose topology is
\* loaded, and sends it in the same step as exactly one new command frame;
\* and a request queued while the run has room for a session is followed
\* by a step in which the main thread takes a request.
C40_RequestsReachThePanel ==
    /\ [][/\ rx'.e = "request" =>
               arm_disarm_reset_queue' = Append(arm_disarm_reset_queue, rx'.req)
          /\ (rx'.e # "request" /\ Dequeues(out') = {}) =>
               arm_disarm_reset_queue' = arm_disarm_reset_queue
          /\ \A i \in Dequeues(out') :
               /\ arm_disarm_reset_queue # <<>>
               /\ out'[i].req = Head(arm_disarm_reset_queue)
               /\ arm_disarm_reset_queue' = Tail(arm_disarm_reset_queue)
               /\ connected'
               /\ s' # "None"
               /\ ctl'.k # "dead"
               /\ stk'[1].at = "recvresponse"
               /\ Cardinality(NewSendsAfter(out', i)) = 1
               /\ \A j \in NewSendsAfter(out', i) :
                    FramePayload(out'[j].data) = RequestBody(out'[i].req)]_vars
    /\ (arm_disarm_reset_queue # <<>> /\ RoomForSession) ~> (Dequeues(out) # {})

\* a request that was queued before the session was set up is sent in the
\* step that ends the topology load of a session that follows a dropped
\* one: get_armed_area_state returns before any idle probe is due
C40_Witness ==
    /\ lastConnectedAt > Epoch
    /\ ~IsNone(last_command)
    /\ Val(last_command)[5] \in {CMD_ARMAREAS, CMD_DISARMAREAS}
    /\ \E i \in Dequeues(out) : \E j \in 1..(i - 1) :
          /\ out[j].e = "return"
          /\ out[j].cmd = CMD_GETAREAFLAGS
          /\ clock - lastConnectedAt <= IDLE_SECS

====
